---------------------------- MODULE Spec2Model ----------------------------
(***************************************************************************)
(* Reservation orchestration engine of food-ai-agency:                     *)
(*   backend/services/reservation_agent.py   (conversation state machine)  *)
(*   backend/services/tabelog_reservation.py (Tabelog driver)              *)
(*   backend/services/toreta_reservation.py  (Toreta driver)               *)
(*                                                                         *)
(* Text is modelled as a sequence of lexemes.  A lexeme is a short piece   *)
(* of text that the code's substring tests and regular expressions never   *)
(* split: a keyword, a separator, a single digit or letter.  `kw in text`  *)
(* of the source is lexeme membership, str.split is splitting at the       *)
(* separator lexeme, and a Python dict key that is absent is the value     *)
(* None (the empty tuple) or "absent".  Japanese lexemes of the source are *)
(* written in Latin letters: kura-zushi is くら寿司, kaiseki is 懐石,      *)
(* kaiseki-banquet is 会席, yoyaku is 予約, and so on.                     *)
(***************************************************************************)
EXTENDS Integers, Sequences, FiniteSets, TLC

VARIABLES
    reservation_sessions,   \* ReservationAgent.reservation_sessions: id -> session
    now,                    \* datetime.now(), in whole seconds
    tabelog_service,        \* the module-level TabelogReservationService
    toreta_service,         \* the module-level ToretaReservationService
    response,               \* what the last operation returned to its caller
    turn,                   \* what the last operation did: driver run, raw result, step writes
    requests,               \* the request threads of the server: what each is handling
    driver_run              \* a run of a site driver on its own: page, result, steps tried

vars == <<reservation_sessions, now, tabelog_service, toreta_service, response, turn,
          requests, driver_run>>

\* the request threads the server runs at once
MaxThreads == 2
Threads == 1..MaxThreads

\* a thread that handles no request
Idle == [pc |-> "idle", session_id |-> <<>>, user_input |-> <<>>, current_step |-> "none"]

----------------------------------------------------------------------------
(* Bounds *)

MaxTime == 1        \* the clock runs 0..MaxTime

----------------------------------------------------------------------------
(* Python values *)

None == <<>>
Some(v) == <<v>>
IsNone(o) == o = <<>>
Val(o) == o[1]

Range(s) == {s[i] : i \in 1..Len(s)}

\* `kw in text`
Contains(text, kw) == \E i \in 1..Len(text) : text[i] = kw

\* any(kw in text for kw in kws)
ContainsAny(text, kws) == \E kw \in kws : Contains(text, kw)

\* str.lower(): only the lexemes below have an upper-case spelling
LowerLexeme(x) ==
    CASE x = "Reservation" -> "reservation"
      [] x = "Tabelog.com" -> "tabelog.com"
      [] x = "OK" -> "ok"
      [] x = "Yes" -> "yes"
      [] x = "Cancel" -> "cancel"
      [] x = "Edit" -> "edit"
      [] x = "None" -> "none"
      [] OTHER -> x

Lower(text) == [i \in 1..Len(text) |-> LowerLexeme(text[i])]

\* str.split('/'): the pieces between the "/" lexemes, each piece a text
RECURSIVE SplitSlash(_)
SplitSlash(text) ==
    IF \A i \in 1..Len(text) : text[i] # "/"
    THEN <<text>>
    ELSE LET k == CHOOSE i \in 1..Len(text) :
                      text[i] = "/" /\ \A j \in 1..(i-1) : text[j] # "/"
         IN <<SubSeq(text, 1, k-1)>> \o SplitSlash(SubSeq(text, k+1, Len(text)))

\* urlparse(url).netloc: what follows "//" up to the next "/"; empty without "//"
Netloc(url) ==
    IF \E i \in 1..(Len(url)-1) : url[i] = "/" /\ url[i+1] = "/"
    THEN LET k == CHOOSE i \in 1..(Len(url)-1) :
                      /\ url[i] = "/" /\ url[i+1] = "/"
                      /\ \A j \in 1..(i-1) : ~(url[j] = "/" /\ url[j+1] = "/")
             rest == SubSeq(url, k+2, Len(url))
         IN SplitSlash(rest)[1]
    ELSE <<>>

----------------------------------------------------------------------------
(* Restaurant records *)

Names == {
    <<"kura-zushi", "shibuya">>,      \* chain
    <<"kaiseki", "hanami">>,            \* exclusive phone-only keyword
    <<"bistro">>,
    <<"torikizoku", "kaiseki">>,          \* chain and exclusive keyword
    <<"french", "table">>,       \* upscale but not exclusive
    <<>> }

Phones == {"", "03-1111-2222"}

Websites == {
    <<>>,
    <<"http:", "/", "/", "kura-sushi.jp">>,
    <<"https:", "/", "/", "tabelog.com", "/", "tokyo">>,
    <<"https:", "/", "/", "yoyaku.", "toreta.in", "/", "abc">>,
    <<"https:", "/", "/", "toreta-reserve", ".jp">>,
    <<"https:", "/", "/", "example.com", "/", "tabelog.com">>,
    <<"example.com", "/", "Reservation">>,
    <<"https:", "/", "/", "example.com", "/", "yoyaku">>,
    <<"https:", "/", "/", "Tabelog.com", "/", "booking">> }

PlaceIds == {"p1"}

Restaurant(pid, n, p, w) ==
    [place_id |-> pid, name |-> n, phone_number |-> p, website |-> w]

\* every record the assessor is evaluated on
AllRestaurants ==
    {Restaurant("p1", n, p, w) : n \in Names, p \in Phones, w \in Websites}

\* the records sessions are started for
Restaurants == {
    Restaurant("p1", <<"kura-zushi", "shibuya">>, "03-1111-2222",
               <<"http:", "/", "/", "kura-sushi.jp">>),
    Restaurant("p1", <<"bistro">>, "03-1111-2222",
               <<"https:", "/", "/", "tabelog.com", "/", "tokyo">>),
    Restaurant("p1", <<"bistro">>, "03-1111-2222",
               <<"https:", "/", "/", "yoyaku.", "toreta.in", "/", "abc">>),
    Restaurant("p1", <<"bistro">>, "03-1111-2222",
               <<"https:", "/", "/", "example.com", "/", "tabelog.com">>),
    Restaurant("p1", <<"bistro">>, "",
               <<"example.com", "/", "Reservation">>),
    Restaurant("p1", <<"kaiseki", "hanami">>, "03-1111-2222", <<>>),
    Restaurant("p1", <<"bistro">>, "",
               <<"https:", "/", "/", "tabelog.com", "/", "tokyo">>) }

----------------------------------------------------------------------------
(* Availability Assessor *)

chain_restaurants == {
    "skylark", "gusto", "jonathan", "bamiyan", "cocos",
    "kura-zushi", "sushiro", "hama-zushi", "kappa-zushi",
    "mcdonalds", "kentucky", "mos-burger",
    "dennys", "royal-host", "big-boy",
    "torikizoku", "watami", "uotami", "shirokiya", "warawara" }

upscale_keywords == {
    "kappou", "kaiseki", "french", "italian", "teppanyaki", "sushi", "tempura",
    "washoku", "nihon-ryouri", "ryoutei", "kaiseki-banquet" }

exclusive_phone_only == {"kappou", "kaiseki", "ryoutei", "kaiseki-banquet"}

reservation_keywords == {"reservation", "yoyaku", "booking", "table"}

Availability(av, me, co, re, ph, fb) ==
    [available |-> av, method |-> me, confidence |-> co, reason |-> re,
     phone_number |-> ph, fallback_phone |-> fb]

\* mutant: the two first branches of the decision in the other order
_check_restaurant_booking_availability_swapped(restaurant) ==
    LET name == Lower(restaurant.name)
        website == restaurant.website
        phone_number == restaurant.phone_number
        is_chain == ContainsAny(name, chain_restaurants)
    IN  IF website # <<>> /\ ContainsAny(Lower(website), reservation_keywords)
        THEN Availability(TRUE, "web_form", "0.9", "absent", "absent", "absent")
        ELSE IF is_chain /\ (website # <<>> \/ phone_number # "")
        THEN Availability(TRUE, "web_form", "0.8", "absent", "absent", "absent")
        ELSE IF phone_number # ""
        THEN IF ContainsAny(name, exclusive_phone_only)
             THEN Availability(FALSE, "phone_only", "absent", "phone_only_upscale",
                               phone_number, "absent")
             ELSE Availability(TRUE, "web_form", "0.7", "absent", "absent", phone_number)
        ELSE Availability(FALSE, "absent", "absent", "insufficient_information",
                          "absent", "absent")

_check_restaurant_booking_availability(restaurant) ==
    LET name == Lower(restaurant.name)
        website == restaurant.website
        phone_number == restaurant.phone_number
        is_chain == ContainsAny(name, chain_restaurants)
    IN  IF is_chain /\ (website # <<>> \/ phone_number # "")
        THEN Availability(TRUE, "web_form", "0.8", "absent", "absent", "absent")
        ELSE IF website # <<>> /\ ContainsAny(Lower(website), reservation_keywords)
        THEN Availability(TRUE, "web_form", "0.9", "absent", "absent", "absent")
        ELSE IF phone_number # ""
        THEN IF ContainsAny(name, exclusive_phone_only)
             THEN Availability(FALSE, "phone_only", "absent", "phone_only_upscale",
                               phone_number, "absent")
             ELSE Availability(TRUE, "web_form", "0.7", "absent", "absent", phone_number)
        ELSE Availability(FALSE, "absent", "absent", "insufficient_information",
                          "absent", "absent")

----------------------------------------------------------------------------
(* Dates and times.  A date lexeme stands for a YYYY-MM-DD text, a time     *)
(* lexeme for an HH:MM text; the clock counts instants, two per day.        *)

DateLexemes == {"D0", "D1"}             \* well-formed dates
TimeLexemes == {"00:00", "19:00"}       \* well-formed HH:MM times
DateLike == DateLexemes \cup {"13-45"}  \* what [0-9-]+ matches
TimeLike == TimeLexemes \cup {"19:00:00"}   \* what [0-9:]+ matches

DayIdx(d) == IF d = "D0" THEN 0 ELSE 1
TimeIdx(t) == IF t = "00:00" THEN 0 ELSE 1

\* datetime.fromisoformat: date, date "T" HH:MM, or date "T" HH:MM ":00";
\* None stands for the ValueError it raises on anything else
fromisoformat(text) ==
    IF /\ Len(text) \in {1, 3, 4}
       /\ text[1] \in DateLexemes
       /\ Len(text) >= 3 => (text[2] = "T" /\ text[3] \in TimeLexemes)
       /\ Len(text) = 4 => text[4] = ":00"
    THEN Some([date |-> text[1],
               time |-> IF Len(text) >= 3 THEN text[3] ELSE "00:00"])
    ELSE None

\* position of a datetime on the clock, for the comparison with now
Instant(dt) == 2 * DayIdx(dt.date) + TimeIdx(dt.time)

\* the replies of the language model to the date extraction prompt
LLMReplies == {
    <<"INVALID">>,
    <<"D0", "T", "19:00", ":00">>,      \* instant 1
    <<"D0", "T", "00:00", ":00">>,      \* instant 0
    <<"ashita">> }                      \* not a timestamp

\* mutant: a timestamp equal to now is accepted
_parse_datetime_with_ai_accepts_now(reply, t) ==
    IF reply = <<"INVALID">> THEN None
    ELSE LET parsed_dt == fromisoformat(reply)
         IN IF IsNone(parsed_dt) THEN None
            ELSE IF Instant(Val(parsed_dt)) < t THEN None
            ELSE Some(reply)

\* reply is response.choices[0].message.content.strip(), t is now
_parse_datetime_with_ai(reply, t) ==
    IF reply = <<"INVALID">> THEN None
    ELSE LET parsed_dt == fromisoformat(reply)
         IN IF IsNone(parsed_dt) THEN None
            ELSE IF Instant(Val(parsed_dt)) <= t THEN None
            ELSE Some(reply)

----------------------------------------------------------------------------
(* Party size *)

Digits == {"0", "1", "2", "3", "4", "5", "6", "7", "8", "9"}

DigitValue(c) ==
    CASE c = "0" -> 0 [] c = "1" -> 1 [] c = "2" -> 2 [] c = "3" -> 3
      [] c = "4" -> 4 [] c = "5" -> 5 [] c = "6" -> 6 [] c = "7" -> 7
      [] c = "8" -> 8 [] c = "9" -> 9

\* int() of a run of digit lexemes
RECURSIVE ToInt(_)
ToInt(ds) ==
    IF ds = <<>> THEN 0
    ELSE 10 * ToInt(SubSeq(ds, 1, Len(ds) - 1)) + DigitValue(ds[Len(ds)])

\* end of the maximal run of lexemes of `class` that starts at i
RECURSIVE RunEnd(_, _, _)
RunEnd(text, i, class) ==
    IF i + 1 <= Len(text) /\ text[i+1] \in class
    THEN RunEnd(text, i + 1, class)
    ELSE i

\* re.findall(r'\d+', text)[0], or <<>> when there is no digit
FirstDigitRun(text) ==
    IF \E i \in 1..Len(text) : text[i] \in Digits
    THEN LET k == CHOOSE i \in 1..Len(text) :
                      text[i] \in Digits /\ \A j \in 1..(i-1) : text[j] \notin Digits
         IN SubSeq(text, k, RunEnd(text, k, Digits))
    ELSE <<>>

\* the kanji numerals one to six as lexemes: ichi is 一, ni is 二, ...
KanjiNumerals == <<"ichi", "ni", "san", "shi", "go", "roku">>

\* variant that takes the kanji numeral of the greatest value
_extract_party_size_greatest_kanji(user_input) ==
    IF FirstDigitRun(user_input) # <<>>
    THEN Some(ToInt(FirstDigitRun(user_input)))
    ELSE IF \E n \in 1..6 : Contains(user_input, KanjiNumerals[n])
    THEN Some(CHOOSE n \in 1..6 :
                 /\ Contains(user_input, KanjiNumerals[n])
                 /\ \A m \in (n+1)..6 : ~Contains(user_input, KanjiNumerals[m]))
    ELSE None

\* _extract_party_size: int of the first match of \d+, else the first of
\* the kanji numerals one to six that the input contains, else None
_extract_party_size(user_input) ==
    IF FirstDigitRun(user_input) # <<>>
    THEN Some(ToInt(FirstDigitRun(user_input)))
    ELSE IF \E n \in 1..6 : Contains(user_input, KanjiNumerals[n])
    THEN Some(CHOOSE n \in 1..6 :
                 /\ Contains(user_input, KanjiNumerals[n])
                 /\ \A m \in 1..(n-1) : ~Contains(user_input, KanjiNumerals[m]))
    ELSE None

----------------------------------------------------------------------------
(* Contact information *)

\* str.strip()
RECURSIVE Strip(_)
Strip(text) ==
    IF text = <<>> THEN text
    ELSE IF text[1] = " " THEN Strip(Tail(text))
    ELSE IF text[Len(text)] = " " THEN Strip(SubSeq(text, 1, Len(text) - 1))
    ELSE text

\* text[i..i+n-1] exists and is n digits
DigitsAt(text, i, n) ==
    /\ i + n - 1 <= Len(text)
    /\ \A j \in i..(i + n - 1) : text[j] \in Digits

\* the optional hyphen of the phone patterns: a hyphen is never a digit, so
\* -? takes the hyphen exactly when there is one
Hyphen(text, i) == IF i <= Len(text) /\ text[i] = "-" THEN 1 ELSE 0

\* r'0[789]0-?\d{4}-?\d{4}' at position i: the end of the match, 0 for no match
MobileAt(text, i) ==
    IF /\ i + 2 <= Len(text)
       /\ text[i] = "0" /\ text[i+1] \in {"7", "8", "9"} /\ text[i+2] = "0"
    THEN LET p1 == i + 3 + Hyphen(text, i + 3)
             p2 == p1 + 4 + Hyphen(text, p1 + 4)
         IN IF DigitsAt(text, p1, 4) /\ DigitsAt(text, p2, 4)
            THEN p2 + 3 ELSE 0
    ELSE 0

\* r'0\d{1,4}-?\d{1,4}-?\d{4}' at position i, for area code length a and
\* exchange length b
LandlineEnd(text, i, a, b) ==
    LET p1 == i + 1 + a + Hyphen(text, i + 1 + a)
        p2 == p1 + b + Hyphen(text, p1 + b)
    IN IF /\ text[i] = "0"
          /\ DigitsAt(text, i + 1, a) /\ DigitsAt(text, p1, b) /\ DigitsAt(text, p2, 4)
       THEN p2 + 3 ELSE 0

\* the greedy quantifiers try the longest area code first, then the longest
\* exchange: the split they settle on among those that match
GreedySplit(ok) ==
    CHOOSE ab \in ok : \A cd \in ok : \/ cd[1] < ab[1]
                                     \/ (cd[1] = ab[1] /\ cd[2] <= ab[2])

LandlineOf(text, i, ok) ==
    IF ok = {} THEN 0
    ELSE LandlineEnd(text, i, GreedySplit(ok)[1], GreedySplit(ok)[2])

LandlineAt(text, i) ==
    LandlineOf(text, i,
               {ab \in (1..4) \X (1..4) : LandlineEnd(text, i, ab[1], ab[2]) # 0})

\* r'\d{10,11}' at position i
BareDigitsAt(text, i) ==
    IF DigitsAt(text, i, 11) THEN i + 10
    ELSE IF DigitsAt(text, i, 10) THEN i + 9
    ELSE 0

PhoneAt(pattern, text, i) ==
    CASE pattern = 1 -> MobileAt(text, i)
      [] pattern = 2 -> LandlineAt(text, i)
      [] pattern = 3 -> BareDigitsAt(text, i)

\* the leftmost match, <<>> for no match: ends[i] is the end of the match
\* that starts at i, 0 when there is none
Leftmost(text, ends) ==
    IF \E i \in DOMAIN ends : ends[i] # 0
    THEN LET k == CHOOSE i \in DOMAIN ends :
                     ends[i] # 0 /\ \A j \in 1..(i-1) : ends[j] = 0
         IN SubSeq(text, k, ends[k])
    ELSE <<>>

\* re.search(pattern, text).group(), <<>> for no match
PhoneSearch(pattern, text) ==
    Leftmost(text, [i \in 1..Len(text) |-> PhoneAt(pattern, text, i)])

\* text.replace(pat, ''), pat not empty
RECURSIVE RemoveAll(_, _)
RemoveAll(text, pat) ==
    IF Len(text) < Len(pat) THEN text
    ELSE IF SubSeq(text, 1, Len(pat)) = pat
    THEN RemoveAll(SubSeq(text, Len(pat) + 1, Len(text)), pat)
    ELSE <<text[1]>> \o RemoveAll(Tail(text), pat)

\* the separators of r'[、,\s]+': touten is the ideographic comma
Separators == {" ", ",", "touten"}

\* ' '.join(part for part in re.split(r'[、,\s]+', text)
\*          if part and not part.isdigit())
RECURSIVE JoinNameParts(_, _)
JoinNameParts(text, acc) ==
    IF text = <<>> THEN acc
    ELSE IF text[1] \in Separators THEN JoinNameParts(Tail(text), acc)
    ELSE LET e == RunEnd(text, 1, {x \in Range(text) : x \notin Separators})
             part == SubSeq(text, 1, e)
             rest == SubSeq(text, e + 1, Len(text))
         IN IF \A j \in 1..Len(part) : part[j] \in Digits
            THEN JoinNameParts(rest, acc)
            ELSE JoinNameParts(rest, IF acc = <<>> THEN part ELSE acc \o <<" ">> \o part)

\* variant of the loop that tries the landline pattern before the mobile one
FirstPhone_landline_first(matches) ==
    IF matches[2] # <<>> THEN matches[2]
    ELSE IF matches[1] # <<>> THEN matches[1]
    ELSE matches[3]

\* the loop over phone_patterns: the match of the first pattern that
\* matches, <<>> where the source has None
FirstPhone(matches) ==
    IF matches[1] # <<>> THEN matches[1]
    ELSE IF matches[2] # <<>> THEN matches[2]
    ELSE matches[3]

\* the name is what is left of the input without the phone
ContactInfo(user_input, phone) ==
    [name |-> Strip(JoinNameParts(IF phone # <<>>
                                  THEN Strip(RemoveAll(user_input, phone))
                                  ELSE user_input, <<>>)),
     phone |-> Strip(phone)]

_extract_contact_info(user_input) ==
    ContactInfo(user_input,
                FirstPhone([pattern \in 1..3 |-> PhoneSearch(pattern, user_input)]))

----------------------------------------------------------------------------
(* Email address *)

Letters == {"a", "b", "c", "m", "o"}    \* the single letters the inputs use
LocalClass == Letters \cup Digits \cup {".", "_", "%", "+", "-"}
DomainClass == Letters \cup Digits \cup {".", "-"}

AllIn(text, lo, hi, class) == \A j \in lo..hi : text[j] \in class

\* variant of the pattern that asks for no top-level domain
email_pattern_without_tld(email) ==
    \E k \in 2..(Len(email) - 1) :
        /\ email[k] = "@"
        /\ AllIn(email, 1, k - 1, LocalClass)
        /\ AllIn(email, k + 1, Len(email), DomainClass)

\* re.match(r'^[a-zA-Z0-9._%+-]+@[a-zA-Z0-9.-]+\.[a-zA-Z]{2,}$', email)
email_pattern(email) ==
    \E k \in 2..Len(email) : \E d \in (k + 2)..(Len(email) - 2) :
        /\ email[k] = "@"
        /\ AllIn(email, 1, k - 1, LocalClass)
        /\ AllIn(email, k + 1, d - 1, DomainClass)
        /\ email[d] = "."
        /\ AllIn(email, d + 1, Len(email), Letters)

----------------------------------------------------------------------------
(* Sessions and responses *)

EmptyData ==
    [datetime |-> None, party_size |-> None, contact |-> None,
     email |-> None, special_requests |-> None]

\* the dict start_reservation stores
NewSession(restaurant, availability) ==
    [restaurant |-> restaurant, data |-> EmptyData, step |-> "initial",
     availability |-> availability, booking_result |-> None]

\* session_id = f"{place_id}_{now:%Y%m%d_%H%M%S}_{id(self)}"[-50:]; id(self) is
\* the same for every call, and the place ids here are short enough to survive
\* the cut to 50 characters
SessionIdOf(restaurant, t) == <<restaurant.place_id, t>>

SessionIds == PlaceIds \X (0..MaxTime)

\* a response dict; keys the source leaves out are "absent" / None / FALSE.
\* error is "True", "False", "absent", or "message" when the key holds a text
BlankResponse ==
    [kind |-> "none", session_id |-> None, step |-> "absent", error |-> "absent",
     success |-> "absent", message |-> "absent", restart_needed |-> FALSE,
     cancelled |-> FALSE, end_session |-> FALSE, availability_status |-> "absent",
     booking_result |-> None, booking_info |-> None, missing_fields |-> <<>>,
     data |-> None, availability |-> None]

StepResponse(session_id, step, error, message) ==
    [BlankResponse EXCEPT !.kind = "step", !.session_id = session_id,
                          !.step = step, !.error = error, !.message = message]

\* what a turn did besides answering: the values it assigned to
\* session['step'] (after the value it found), the driver it ran, the
\* driver's own result, the booking result the state machine mapped, and
\* whether the run held a browser
BlankTurn ==
    [op |-> "none", session_id |-> None, restaurant |-> None, reply |-> None,
     writes |-> <<>>, driver |-> "none", raw |-> None, booking_result |-> None,
     browser |-> FALSE, form_data |-> None]

\* what a step handler hands back: the store, the response, the step writes
\* and the driver run
Outcome(S, resp, writes) ==
    [store |-> S, resp |-> resp, writes |-> writes, driver |-> "none",
     raw |-> None, booking_result |-> None, browser |-> FALSE,
     tabelog |-> tabelog_service, toreta |-> toreta_service]

\* mutant: a step write also rewrites the stored assessment
SetStep_reassesses(S, session_id, step) ==
    [S EXCEPT ![session_id].step = step, ![session_id].availability.confidence = "0.0"]

SetStep(S, session_id, step) == [S EXCEPT ![session_id].step = step]
SetData(S, session_id, field, value) ==
    [S EXCEPT ![session_id].data = [@ EXCEPT ![field] = value]]

----------------------------------------------------------------------------
(* Bulk form *)

\* position after the spaces that start at i
RECURSIVE SkipSpaces(_, _)
SkipSpaces(text, i) ==
    IF i <= Len(text) /\ text[i] = " " THEN SkipSpaces(text, i + 1) ELSE i

\* r'nichiji:\s*([0-9-]+)\s+([0-9:]+)' at i: the two groups
DatetimeMatchAt(text, i) ==
    LET dchars == DateLike \cup Digits \cup {"-"}
        tchars == TimeLike \cup Digits \cup {":"}
        j == SkipSpaces(text, i + 1)
    IN IF text[i] = "nichiji:" /\ j <= Len(text) /\ text[j] \in dchars
       THEN LET e == RunEnd(text, j, dchars)
                k == SkipSpaces(text, e + 1)
            IN IF k > e + 1 /\ k <= Len(text) /\ text[k] \in tchars
               THEN Some(<<SubSeq(text, j, e), SubSeq(text, k, RunEnd(text, k, tchars))>>)
               ELSE None
       ELSE None

\* r'ninzu:\s*(\d+)mei' at i: the group
PartySizeMatchAt(text, i) ==
    LET j == SkipSpaces(text, i + 1)
    IN IF text[i] = "ninzu:" /\ j <= Len(text) /\ text[j] \in Digits
       THEN LET e == RunEnd(text, j, Digits)
            IN IF e + 1 <= Len(text) /\ text[e + 1] = "mei"
               THEN Some(SubSeq(text, j, e)) ELSE None
       ELSE None

\* label:\s*([^,]+) at i: the group.  When only spaces separate the label
\* from a comma or the end, \s* gives back its last space to the group
FieldMatchAt(label, text, i) ==
    LET j == SkipSpaces(text, i + 1)
        notcomma == {x \in Range(text) : x # ","}
    IN IF text[i] # label THEN None
       ELSE IF j <= Len(text) /\ text[j] # ","
       THEN Some(SubSeq(text, j, RunEnd(text, j, notcomma)))
       ELSE IF j > i + 1 THEN Some(<<" ">>)
       ELSE None

NameMatchAt(text, i) == FieldMatchAt("namae:", text, i)
PhoneMatchAt(text, i) == FieldMatchAt("denwa:", text, i)
EmailMatchAt(text, i) == FieldMatchAt("meeru:", text, i)

\* r'youbou:\s*(.+?)(?:$|,)' at i: the group, which takes one lexeme at
\* least and stops before the next comma or at the end
RequestsMatchAt(text, i) ==
    LET j == SkipSpaces(text, i + 1)
        notcomma == {x \in Range(text) : x # ","}
    IN IF text[i] # "youbou:" THEN None
       ELSE IF j <= Len(text)
       THEN Some(SubSeq(text, j, RunEnd(text, j, notcomma)))
       ELSE IF j > i + 1 THEN Some(<<" ">>)
       ELSE None

\* re.search: the groups of the leftmost match, matches[i] being the match
\* at position i
FirstMatch(matches) ==
    IF \E i \in DOMAIN matches : matches[i] # None
    THEN matches[CHOOSE i \in DOMAIN matches :
                     matches[i] # None /\ \A j \in 1..(i-1) : matches[j] = None]
    ELSE None

datetime_match(form_data) ==
    FirstMatch([i \in 1..Len(form_data) |-> DatetimeMatchAt(form_data, i)])
party_size_match(form_data) ==
    FirstMatch([i \in 1..Len(form_data) |-> PartySizeMatchAt(form_data, i)])
name_match(form_data) ==
    FirstMatch([i \in 1..Len(form_data) |-> NameMatchAt(form_data, i)])
phone_match(form_data) ==
    FirstMatch([i \in 1..Len(form_data) |-> PhoneMatchAt(form_data, i)])
email_match(form_data) ==
    FirstMatch([i \in 1..Len(form_data) |-> EmailMatchAt(form_data, i)])
requests_match(form_data) ==
    FirstMatch([i \in 1..Len(form_data) |-> RequestsMatchAt(form_data, i)])

\* user_input.startswith('nichiji:') and 'ninzu:' in user_input and 'namae:' in user_input
IsBulkForm(user_input) ==
    /\ user_input # <<>> /\ user_input[1] = "nichiji:"
    /\ Contains(user_input, "ninzu:") /\ Contains(user_input, "namae:")

\* the labels reported missing, in the order the source appends them
missing_fields(form_data) ==
    SelectSeq(<<"nichiji", "ninzu", "namae", "denwa", "meeru">>,
              LAMBDA f :
                  CASE f = "nichiji" -> datetime_match(form_data) = None
                    [] f = "ninzu" -> party_size_match(form_data) = None
                    [] f = "namae" -> name_match(form_data) = None
                    [] f = "denwa" -> phone_match(form_data) = None
                    [] f = "meeru" -> email_match(form_data) = None)

\* the session['data'] dict built from the groups of the matches (rm is the
\* requests match itself, which may be None)
BulkDataOf(dm, pm, nm, hm, em, rm) ==
    [datetime |-> Some(dm[1] \o <<"T">> \o dm[2] \o <<":00">>),
     party_size |-> Some(ToInt(pm)),
     contact |-> Some([name |-> Strip(nm), phone |-> Strip(hm),
                       email |-> Some(Strip(em))]),
     email |-> Some(Strip(em)),
     special_requests |->
         IF rm # None /\ Strip(Val(rm)) # <<"nashi">> THEN Some(Strip(Val(rm))) ELSE None]

BulkData(form_data) ==
    BulkDataOf(Val(datetime_match(form_data)), Val(party_size_match(form_data)),
               Val(name_match(form_data)), Val(phone_match(form_data)),
               Val(email_match(form_data)), requests_match(form_data))

\* the answer that lists the missing labels
MissingFieldsReply(S, session_id, missing) ==
    Outcome(S,
        [StepResponse(Some(session_id), "datetime_input", "True", "missing_fields")
            EXCEPT !.missing_fields = missing],
        <<>>)

\* the answer after the session was written: datetime.fromisoformat(iso_datetime)
\* raises on a time that is not HH:MM, and the handler's except clause answers
BulkSummary(S2, session_id) ==
    IF IsNone(fromisoformat(Val(S2[session_id].data.datetime)))
    THEN Outcome(S2, StepResponse(Some(session_id), "datetime_input", "True",
                                  "bulk_exception"), <<"confirmation">>)
    ELSE Outcome(S2, [StepResponse(Some(session_id), "confirmation", "False",
                                   "confirmation_summary")
                         EXCEPT !.data = Some(S2[session_id].data)],
                 <<"confirmation">>)

\* mutant: the fields are populated but the step is left where it was
_handle_bulk_form_data_keeps_step(S, session_id, form_data) ==
    IF missing_fields(form_data) # <<>>
    THEN MissingFieldsReply(S, session_id, missing_fields(form_data))
    ELSE BulkSummary([S EXCEPT ![session_id].data = BulkData(form_data)], session_id)

_handle_bulk_form_data(S, session_id, form_data) ==
    IF missing_fields(form_data) # <<>>
    THEN MissingFieldsReply(S, session_id, missing_fields(form_data))
    ELSE BulkSummary(SetStep([S EXCEPT ![session_id].data = BulkData(form_data)],
                             session_id, "confirmation"),
                     session_id)

----------------------------------------------------------------------------
(* Step handlers of the conversation *)

_handle_datetime_input(S, session_id, user_input, reply) ==
    IF IsBulkForm(user_input)
    THEN _handle_bulk_form_data(S, session_id, user_input)
    ELSE LET parsed_datetime == _parse_datetime_with_ai(reply, now)
         IN IF IsNone(parsed_datetime)
            THEN Outcome(S, StepResponse(None, "datetime_input", "True", "reprompt"), <<>>)
            ELSE LET S1 == SetStep(SetData(S, session_id, "datetime", parsed_datetime),
                                   session_id, "party_size_input")
                 IN \* datetime.fromisoformat(parsed_datetime) for the message
                    IF IsNone(fromisoformat(Val(parsed_datetime)))
                    THEN Outcome(S1, StepResponse(None, "datetime_input", "True",
                                                  "exception"), <<"party_size_input">>)
                    ELSE Outcome(S1, StepResponse(Some(session_id), "party_size_input",
                                                  "False", "prompt"),
                                 <<"party_size_input">>)

\* mutant: the party size step advances past the contact step
_handle_party_size_input_skips_contact(S, session_id, user_input) ==
    LET party_size == _extract_party_size(user_input)
    IN IF IsNone(party_size) \/ Val(party_size) = 0
       THEN Outcome(S, StepResponse(Some(session_id), "party_size_input", "True",
                                    "reprompt"), <<>>)
       ELSE Outcome(SetStep(SetData(S, session_id, "party_size", party_size),
                            session_id, "email_input"),
                    StepResponse(Some(session_id), "email_input", "False", "prompt"),
                    <<"email_input">>)

_handle_party_size_input(S, session_id, user_input) ==
    LET party_size == _extract_party_size(user_input)
    IN \* `not party_size` holds for None and for 0
       IF IsNone(party_size) \/ Val(party_size) = 0
       THEN Outcome(S, StepResponse(Some(session_id), "party_size_input", "True",
                                    "reprompt"), <<>>)
       ELSE Outcome(SetStep(SetData(S, session_id, "party_size", party_size),
                            session_id, "contact_info_input"),
                    StepResponse(Some(session_id), "contact_info_input", "False", "prompt"),
                    <<"contact_info_input">>)

\* mutant: what was extracted is stored before it is found incomplete
_handle_contact_info_input_stores_first(S, session_id, user_input) ==
    LET contact_info == _extract_contact_info(user_input)
        S1 == SetData(S, session_id, "contact",
                      Some([name |-> contact_info.name, phone |-> contact_info.phone,
                            email |-> None]))
    IN IF contact_info.name = <<>> \/ contact_info.phone = <<>>
       THEN Outcome(S1, StepResponse(Some(session_id), "contact_info_input", "True",
                                     "reprompt"), <<>>)
       ELSE Outcome(SetStep(S1, session_id, "email_input"),
                    StepResponse(Some(session_id), "email_input", "False", "prompt"),
                    <<"email_input">>)

_handle_contact_info_input(S, session_id, user_input) ==
    LET contact_info == _extract_contact_info(user_input)
    IN IF contact_info.name = <<>> \/ contact_info.phone = <<>>
       THEN Outcome(S, StepResponse(Some(session_id), "contact_info_input", "True",
                                    "reprompt"), <<>>)
       ELSE Outcome(SetStep(SetData(S, session_id, "contact",
                                    Some([name |-> contact_info.name,
                                          phone |-> contact_info.phone,
                                          email |-> None])),
                            session_id, "email_input"),
                    StepResponse(Some(session_id), "email_input", "False", "prompt"),
                    <<"email_input">>)

_handle_email_input(S, session_id, user_input) ==
    LET email == Strip(user_input)
    IN IF ~email_pattern(email)
       THEN Outcome(S, StepResponse(Some(session_id), "email_input", "True", "reprompt"),
                    <<>>)
       ELSE LET S1 == SetData(S, session_id, "email", Some(email))
            IN \* session['data']['contact']['email'] = email raises on None
               IF IsNone(S1[session_id].data.contact)
               THEN Outcome(S1, StepResponse(None, "email_input", "True", "exception"),
                            <<>>)
               ELSE Outcome(
                        SetStep(SetData(S1, session_id, "contact",
                                        Some([Val(S1[session_id].data.contact)
                                                 EXCEPT !.email = Some(email)])),
                                session_id, "special_requests_input"),
                        StepResponse(Some(session_id), "special_requests_input", "False",
                                     "prompt"),
                        <<"special_requests_input">>)

\* the summary of the collected fields can be rendered: fromisoformat of the
\* datetime, data['party_size'], data['contact']['name'] and ['phone']
CanRenderSummary(data) ==
    /\ ~IsNone(data.datetime)
    /\ ~IsNone(fromisoformat(Val(data.datetime)))
    /\ ~IsNone(data.contact)

_handle_special_requests_input(S, session_id, user_input) ==
    LET special == IF Lower(user_input) \in {<<"nashi">>, <<"none">>, <<>>}
                   THEN None ELSE Some(user_input)
        S1 == SetStep(SetData(S, session_id, "special_requests", special),
                      session_id, "confirmation")
    IN IF ~CanRenderSummary(S1[session_id].data)
       THEN Outcome(S1, StepResponse(None, "special_requests_input", "True", "exception"),
                    <<"confirmation">>)
       ELSE Outcome(S1, [StepResponse(Some(session_id), "confirmation", "False",
                                      "confirmation_summary")
                            EXCEPT !.data = Some(S1[session_id].data)],
                    <<"confirmation">>)

----------------------------------------------------------------------------
(* Site automation drivers *)

\* a booking result dict; error "absent" is a missing 'error' key
BlankResult ==
    [success |-> FALSE, error |-> "absent", semi_automated |-> FALSE,
     browser_opened |-> FALSE, manual_booking_required |-> FALSE,
     reservation_id |-> None, phone_number |-> None, booking_info |-> None,
     instructions |-> FALSE, method |-> "absent", supported_systems |-> <<>>,
     website |-> None]

Failure(error) == [BlankResult EXCEPT !.error = error]

\* how the site behaves during one run of the Tabelog driver
\* (a field that cannot matter after an earlier one is left FALSE)
TabelogPages ==
    {p \in [launch_ok : BOOLEAN, nav_timeout : BOOLEAN, blocked_on_landing : BOOLEAN,
            phone_found : BOOLEAN, entry_found : BOOLEAN, blocked_after_click : BOOLEAN,
            date_ok : BOOLEAN, time_ok : BOOLEAN, party_ok : BOOLEAN, info_ok : BOOLEAN,
            crash : BOOLEAN] :
        /\ ~p.launch_ok => ~(p.nav_timeout \/ p.blocked_on_landing \/ p.entry_found
                              \/ p.crash)
        /\ p.blocked_on_landing => ~p.entry_found
        /\ p.phone_found => ~p.entry_found /\ ~p.crash /\ p.launch_ok
        /\ p.blocked_after_click => p.entry_found /\ ~p.crash
        /\ (p.date_ok \/ p.time_ok \/ p.party_ok \/ p.info_ok)
               => p.entry_found /\ ~p.blocked_after_click /\ ~p.crash}

\* the pages that differ in the result of the run: the run only logs a
\* navigation timeout and the outcome of each field it fills
TabelogResultPages ==
    {p \in TabelogPages :
        ~(p.nav_timeout \/ p.date_ok \/ p.time_ok \/ p.party_ok \/ p.info_ok)}

\* how the site behaves during one run of the Toreta driver
ToretaPages ==
    {p \in [launch_ok : BOOLEAN, nav_timeout : BOOLEAN, blocked_on_landing : BOOLEAN,
            entry_found : BOOLEAN, date_ok : BOOLEAN, time_ok : BOOLEAN,
            info_ok : BOOLEAN, submit_crash : BOOLEAN, completed : BOOLEAN,
            id_found : BOOLEAN] :
        /\ ~p.launch_ok => ~(p.nav_timeout \/ p.blocked_on_landing \/ p.entry_found
                              \/ p.date_ok)
        /\ p.nav_timeout => ~(p.blocked_on_landing \/ p.entry_found \/ p.date_ok)
        /\ p.blocked_on_landing => ~(p.entry_found \/ p.date_ok)
        /\ p.time_ok => p.date_ok
        /\ p.info_ok => p.time_ok
        /\ p.submit_crash => p.info_ok /\ ~p.completed
        /\ p.completed => p.info_ok
        /\ p.id_found => p.completed}

\* the pages that differ in the result of the run
ToretaResultPages ==
    {p \in ToretaPages : ~(p.blocked_on_landing \/ p.entry_found)}

\* the page of a turn that runs no driver: the browser does not start
NoTabelogPage ==
    [launch_ok |-> FALSE, nav_timeout |-> FALSE, blocked_on_landing |-> FALSE,
     phone_found |-> FALSE, entry_found |-> FALSE, blocked_after_click |-> FALSE,
     date_ok |-> FALSE, time_ok |-> FALSE, party_ok |-> FALSE, info_ok |-> FALSE,
     crash |-> FALSE]

NoToretaPage ==
    [launch_ok |-> FALSE, nav_timeout |-> FALSE, blocked_on_landing |-> FALSE,
     entry_found |-> FALSE, date_ok |-> FALSE, time_ok |-> FALSE, info_ok |-> FALSE,
     submit_crash |-> FALSE, completed |-> FALSE, id_found |-> FALSE]

\* how the page behaves while a booking is submitted
SubmitPages ==
    {p \in [submit_crash : BOOLEAN, completed : BOOLEAN, id_found : BOOLEAN] :
        /\ p.submit_crash => ~p.completed
        /\ p.id_found => p.completed}

\* initialize(): starts a browser only when self.playwright is not set; when
\* the start raises, nothing is set
initialize(service, launch_ok) ==
    IF service.playwright \/ ~launch_ok THEN service
    ELSE [playwright |-> TRUE]

InitializeRaises(service, launch_ok) == ~service.playwright /\ ~launch_ok

is_tabelog_url(url) == url # <<>> /\ Contains(Netloc(url), "tabelog.com")

is_toreta_url(url) ==
    url # <<>> /\ (Contains(url, "toreta.in") \/ Contains(url, "toreta-reserve"))

BookingInfo(date, time, party_size, customer_info) ==
    Some([date |-> date, time |-> time, party_size |-> party_size,
          customer_name |-> customer_info.name])

\* variant of the submission step that synthesizes no identifier
ConfirmAndSubmit_without_fallback_id(page, synthesized) ==
    IF page.submit_crash
    THEN [result |-> Failure("submit_error"), trace |-> <<"submit">>]
    ELSE IF page.completed
    THEN [result |-> [BlankResult EXCEPT
                          !.success = TRUE,
                          !.reservation_id =
                              IF page.id_found THEN Some("site-id") ELSE None],
          trace |-> <<"submit", "markers", "reservation_id">>]
    ELSE [result |-> Failure("submission_failed"), trace |-> <<"submit", "markers">>]

\* _confirm_and_submit / _confirm_and_submit_toreta: the submit buttons are
\* clicked, then the completion markers (texts, then the URL) decide;
\* synthesized is the timestamp-based id used when no pattern matches
ConfirmAndSubmit(page, synthesized) ==
    IF page.submit_crash
    THEN [result |-> Failure("submit_error"), trace |-> <<"submit">>]
    ELSE IF page.completed
    THEN [result |-> [BlankResult EXCEPT
                          !.success = TRUE,
                          !.reservation_id =
                              Some(IF page.id_found THEN "site-id" ELSE synthesized)],
          trace |-> <<"submit", "markers", "reservation_id">>]
    ELSE [result |-> Failure("submission_failed"), trace |-> <<"submit", "markers">>]

_confirm_and_submit(page) == ConfirmAndSubmit(page, "TBL-timestamp")

_confirm_and_submit_toreta(page) == ConfirmAndSubmit(page, "TRT-timestamp")

\* TabelogReservationService.make_reservation: the result, the service
\* afterwards, whether the run held a browser (initialize() returned), and
\* the steps the run tried, in order
TabelogMakeReservation(service, restaurant_url, date, time, party_size, customer_info, page) ==
    LET svc == initialize(service, page.launch_ok)
        phone == IF page.phone_found THEN Some("03-1111-2222") ELSE None
        info == BookingInfo(date, time, party_size, customer_info)
        Ret(r, used, tr) == [result |-> r, service |-> svc, browser |-> used, trace |-> tr]
        landed == <<"initialize", "goto", "bot_gate">>
        clicked == landed \o <<"entry_search", "click">>
    IN  IF InitializeRaises(service, page.launch_ok)
        THEN Ret(Failure("reservation_error"), FALSE, <<"initialize">>)
        ELSE IF ~is_tabelog_url(restaurant_url)
        THEN Ret(Failure("not_tabelog_url"), TRUE, <<"initialize">>)
        ELSE IF page.blocked_on_landing
        THEN IF page.crash
             THEN Ret(Failure("reservation_error"), TRUE, landed \o <<"phone_lookup">>)
             ELSE Ret([Failure("ai_detection") EXCEPT
                           !.manual_booking_required = TRUE,
                           !.phone_number = phone, !.booking_info = info,
                           !.instructions = TRUE], TRUE, landed \o <<"phone_lookup">>)
        ELSE IF ~page.entry_found
        THEN IF page.crash
             THEN Ret(Failure("reservation_error"), TRUE,
                      landed \o <<"entry_search", "phone_lookup">>)
             ELSE Ret([Failure("net_reservation_unsupported") EXCEPT
                           !.manual_booking_required = TRUE,
                           !.phone_number = phone, !.booking_info = info], TRUE,
                      landed \o <<"entry_search", "phone_lookup">>)
        ELSE IF page.crash
        THEN Ret(Failure("reservation_error"), TRUE, clicked)
        ELSE IF page.blocked_after_click
        THEN Ret([Failure("ai_detection") EXCEPT
                      !.semi_automated = TRUE, !.browser_opened = TRUE,
                      !.booking_info = info, !.instructions = TRUE], TRUE,
                 clicked \o <<"bot_gate">>)
        ELSE Ret([BlankResult EXCEPT
                      !.semi_automated = TRUE, !.browser_opened = TRUE,
                      !.booking_info = info, !.instructions = TRUE], TRUE,
                 clicked \o <<"bot_gate", "date", "time", "party_size", "course",
                              "seat", "customer_info">>)

\* ToretaReservationService.make_reservation
ToretaMakeReservation(service, restaurant_url, date, time, party_size, customer_info, page) ==
    LET svc == initialize(service, page.launch_ok)
        Ret(r, used, tr) == [result |-> r, service |-> svc, browser |-> used, trace |-> tr]
        opened == <<"initialize", "goto", "entry_search">>
                      \o (IF page.entry_found THEN <<"click">> ELSE <<>>)
        submitted == _confirm_and_submit_toreta(page)
    IN  IF InitializeRaises(service, page.launch_ok)
        THEN Ret(Failure("reservation_error"), FALSE, <<"initialize">>)
        ELSE IF ~is_toreta_url(restaurant_url)
        THEN Ret(Failure("not_toreta_url"), TRUE, <<"initialize">>)
        ELSE IF page.nav_timeout
        THEN Ret(Failure("reservation_error"), TRUE, <<"initialize", "goto">>)
        ELSE IF ~page.date_ok
        THEN Ret(Failure("date_selection_failed"), TRUE, opened \o <<"date">>)
        ELSE IF ~page.time_ok
        THEN Ret(Failure("time_party_selection_failed"), TRUE,
                 opened \o <<"date", "time_party">>)
        ELSE IF ~page.info_ok
        THEN Ret(Failure("customer_info_failed"), TRUE,
                 opened \o <<"date", "time_party", "customer_info">>)
        ELSE Ret(submitted.result, TRUE,
                 opened \o <<"date", "time_party", "customer_info">> \o submitted.trace)

----------------
(* Booking dispatch and the confirmation step *)

\* the BookingRequest can be derived: fromisoformat(data['datetime']) and
\* data['contact'][...] do not raise
CanDeriveRequest(data) ==
    /\ ~IsNone(data.datetime)
    /\ ~IsNone(fromisoformat(Val(data.datetime)))
    /\ ~IsNone(data.contact)
    /\ ~IsNone(data.party_size)

RequestDate(data) == Val(fromisoformat(Val(data.datetime))).date
RequestTime(data) == Val(fromisoformat(Val(data.datetime))).time

NoRun(result) ==
    [result |-> result, raw |-> None, driver |-> "none", browser |-> FALSE,
     tabelog |-> tabelog_service, toreta |-> toreta_service]

\* what _execute_tabelog_booking returns for a run of the driver: of a result
\* that is not a success only error, message and alternative are copied
TabelogBookingResult(run) ==
    [result |->
         IF run.result.success
         THEN [BlankResult EXCEPT !.success = TRUE,
                                  !.reservation_id = run.result.reservation_id,
                                  !.method = "tabelog_booking"]
         ELSE Failure(IF run.result.error = "absent" THEN "reservation_failed"
                      ELSE run.result.error),
     raw |-> Some(run.result), driver |-> "tabelog", browser |-> run.browser,
     tabelog |-> run.service, toreta |-> toreta_service]

_execute_tabelog_booking(restaurant, data, page) ==
    IF ~Contains(restaurant.website, "tabelog.com")
    THEN NoRun(Failure("not_tabelog"))
    ELSE IF ~CanDeriveRequest(data)
    THEN NoRun(Failure("exception"))
    ELSE TabelogBookingResult(
             TabelogMakeReservation(tabelog_service, restaurant.website,
                 RequestDate(data), RequestTime(data), Val(data.party_size),
                 Val(data.contact), page))

\* _execute_toreta_booking returns the result of the driver as it is
ToretaBookingResult(run) ==
    [result |-> run.result, raw |-> Some(run.result), driver |-> "toreta",
     browser |-> run.browser, tabelog |-> tabelog_service, toreta |-> run.service]

_execute_toreta_booking(restaurant, data, page) ==
    IF ~CanDeriveRequest(data)
    THEN NoRun(Failure("toreta_error"))
    ELSE ToretaBookingResult(
             ToretaMakeReservation(toreta_service, restaurant.website,
                 RequestDate(data), RequestTime(data), Val(data.party_size),
                 Val(data.contact), page))

\* the booking result for a site no driver handles
UnsupportedSite(website) ==
    [Failure("not_supported") EXCEPT
        !.website = Some(website),
        !.supported_systems = <<"tabelog.com", "toreta.in">>]

\* the choice of a driver from the website text
Dispatch(restaurant, data, tpage, opage) ==
    LET website == restaurant.website
    IN IF Contains(website, "tabelog.com")
       THEN _execute_tabelog_booking(restaurant, data, tpage)
       ELSE IF Contains(website, "toreta.in") \/ Contains(website, "toreta-reserve")
       THEN _execute_toreta_booking(restaurant, data, opage)
       ELSE NoRun(UnsupportedSite(website))

\* the kind of message built, None where the source raises IndexError:
\* website.split('/')[2] of a website with one or two pieces
_create_error_message(booking_result, restaurant) ==
    LET error_type == booking_result.error
    IN IF booking_result.semi_automated /\ booking_result.browser_opened
       THEN Some("semi_automated_browser")
       ELSE IF booking_result.semi_automated /\ booking_result.manual_booking_required
       THEN Some("semi_automated_manual")
       ELSE IF error_type = "ai_detection" THEN Some("ai_detection")
       ELSE IF error_type = "not_supported"
       THEN LET website == Val(booking_result.website)
            IN IF website # <<>>
               THEN IF Contains(website, "/") /\ Len(SplitSlash(website)) < 3
                    THEN None
                    ELSE Some("not_supported_site")
               ELSE Some("not_supported")
       ELSE IF error_type = "not_tabelog" THEN Some("not_tabelog")
       ELSE Some("generic")

execute_keywords == {"jikkou", "hai", "check-mark"}     \* 実行, はい, ✅
execute_keywords_lower == {"ok", "yes"}
cancel_keywords == {"kyanseru"}                         \* キャンセル
edit_keywords == {"shuusei"}                            \* 修正

IsExecute(user_input) ==
    ContainsAny(user_input, execute_keywords)
        \/ ContainsAny(Lower(user_input), execute_keywords_lower)
IsCancel(user_input) ==
    ContainsAny(user_input, cancel_keywords) \/ Contains(Lower(user_input), "cancel")
IsEdit(user_input) ==
    ContainsAny(user_input, edit_keywords) \/ Contains(Lower(user_input), "edit")
IsContinue(user_input) ==
    Contains(user_input, "zokkou") \/ Strip(user_input) = <<>>     \* 続行

\* mutant: the session is left in the store
Delete_keeps(S, session_id) == S

\* del self.reservation_sessions[session_id]
Delete(S, session_id) == [k \in DOMAIN S \ {session_id} |-> S[k]]

\* mutant: the booking result is recorded but the step is not advanced
MarkCompleted_no_step(S, session_id, booking_result) ==
    [S EXCEPT ![session_id].booking_result = Some(booking_result)]

\* session['step'] = 'completed'; session['booking_result'] = booking_result
MarkCompleted(S, session_id, booking_result) ==
    [SetStep(S, session_id, "completed")
        EXCEPT ![session_id].booking_result = Some(booking_result)]

WithRun(out, run) ==
    [out EXCEPT !.driver = run.driver, !.raw = run.raw,
                !.booking_result = Some(run.result), !.browser = run.browser,
                !.tabelog = run.tabelog, !.toreta = run.toreta]

\* the except clause of _handle_confirmation
ConfirmationException(S) ==
    StepResponse(None, "confirmation", "True", "exception")

\* if booking_result.get('success'): the session is completed and the
\* summary is rendered
BookingSucceeded(S1, session_id, run) ==
    IF ~CanRenderSummary(S1[session_id].data)
    THEN WithRun(Outcome(S1, ConfirmationException(S1), <<"completed">>), run)
    ELSE WithRun(Outcome(S1,
             [StepResponse(Some(session_id), "completed", "False", "booking_completed")
                 EXCEPT !.success = "True", !.booking_result = Some(run.result)],
             <<"completed">>), run)

\* else: the three answers to a booking result that is not a success
BookingFailed(S, session_id, run, error_message) ==
    IF IsNone(error_message)
    THEN WithRun(Outcome(S, ConfirmationException(S), <<>>), run)
    ELSE IF run.result.semi_automated
    THEN WithRun(Outcome(S,
             [StepResponse(Some(session_id), "semi_automated", "False",
                           Val(error_message))
                 EXCEPT !.success = "False", !.booking_info = run.result.booking_info],
             <<>>), run)
    ELSE IF run.result.error = "ai_detection"
    THEN WithRun(Outcome(S,
             [StepResponse(Some(session_id), "ai_blocked", "True", Val(error_message))
                 EXCEPT !.success = "False", !.booking_info = run.result.booking_info],
             <<>>), run)
    ELSE WithRun(Outcome(S,
             [StepResponse(Some(session_id), "completed", "True", Val(error_message))
                 EXCEPT !.success = "False"],
             <<>>), run)

\* what the turn does with the booking result
Resolve(S, session_id, run) ==
    IF run.result.success
    THEN BookingSucceeded(MarkCompleted(S, session_id, run.result), session_id, run)
    ELSE BookingFailed(S, session_id, run,
                       _create_error_message(run.result, S[session_id].restaurant))

\* the execute branch of _handle_confirmation
ExecuteBooking(S, session_id, tpage, opage) ==
    Resolve(S, session_id,
            Dispatch(S[session_id].restaurant, S[session_id].data, tpage, opage))

\* variant of the confirmation step that looks for the cancel words first
_handle_confirmation_cancel_first(S, session_id, user_input, tpage, opage) ==
    IF IsCancel(user_input)
    THEN Outcome(Delete(S, session_id),
                 [StepResponse(None, "completed", "absent", "cancelled")
                     EXCEPT !.cancelled = TRUE],
                 <<>>)
    ELSE IF IsExecute(user_input)
    THEN ExecuteBooking(S, session_id, tpage, opage)
    ELSE IF IsEdit(user_input)
    THEN Outcome(S, StepResponse(None, "confirmation", "absent", "edit_menu"), <<>>)
    ELSE IF IsContinue(user_input)
    THEN IF ~CanRenderSummary(S[session_id].data)
         THEN Outcome(S, ConfirmationException(S), <<>>)
         ELSE Outcome(S, [StepResponse(Some(session_id), "confirmation", "False",
                                       "confirmation_summary")
                             EXCEPT !.data = Some(S[session_id].data)], <<>>)
    ELSE Outcome(S, StepResponse(Some(session_id), "confirmation", "True", "reprompt"),
                 <<>>)

_handle_confirmation(S, session_id, user_input, tpage, opage) ==
    IF IsExecute(user_input)
    THEN ExecuteBooking(S, session_id, tpage, opage)
    ELSE IF IsCancel(user_input)
    THEN Outcome(Delete(S, session_id),
                 [StepResponse(None, "completed", "absent", "cancelled")
                     EXCEPT !.cancelled = TRUE],
                 <<>>)
    ELSE IF IsEdit(user_input)
    THEN Outcome(S, StepResponse(None, "confirmation", "absent", "edit_menu"), <<>>)
    ELSE IF IsContinue(user_input)
    THEN IF ~CanRenderSummary(S[session_id].data)
         THEN Outcome(S, ConfirmationException(S), <<>>)
         ELSE Outcome(S, [StepResponse(Some(session_id), "confirmation", "False",
                                       "confirmation_summary")
                             EXCEPT !.data = Some(S[session_id].data)], <<>>)
    ELSE Outcome(S, StepResponse(Some(session_id), "confirmation", "True", "reprompt"),
                 <<>>)

----------------------------------------------------------------------------
(* What callers send *)

MobilePhone == <<"0", "9", "0", "-", "1", "2", "3", "4", "-", "5", "6", "7", "8">>
EmailText == <<"a", "@", "b", ".", "c", "o", "m">>

\* a form filled in by the page script: the phone and the email are one
\* lexeme each
BulkForm(time, size, tail) ==
    <<"nichiji:", " ", "D1", " ", time, ",", "ninzu:", size, "mei", ",",
      "namae:", "tanaka", ",", "denwa:", "090-1234-5678">> \o tail

UserInputs == {
    <<"abc">>,
    <<"2", "mei">>,                             \* 2名
    <<"0", "mei">>,
    <<"tanaka", " ">> \o MobilePhone,           \* 田中太郎 090-1234-5678
    EmailText,                                  \* a@b.com
    <<"nashi">>,                                \* なし
    <<"check-mark", "jikkou">>,                 \* ✅ 予約を実行する
    <<"kyanseru">>,                             \* キャンセル
    <<"shuusei">>,                              \* 修正する
    <<"zokkou">>,                               \* 続行
    <<>>,
    BulkForm("19:00", "2", <<",", "meeru:", "a@b.com", ",", "youbou:", "nashi">>),
    BulkForm("19:00:00", "2", <<",", "meeru:", "a@b.com">>),
    BulkForm("19:00", "0", <<",", "meeru:", "a@b.com">>),
    BulkForm("19:00", "ni", <<",", "meeru:", "a@b.com">>),     \* 人数: 二名
    BulkForm("19:00", "2", <<",", "meeru:", " ">>),            \* メール: left blank
    BulkForm("19:00", "2", <<>>) }

----------------------------------------------------------------------------
(* Operations of the agent *)

Init ==
    /\ reservation_sessions = << >>
    /\ now = 0
    /\ tabelog_service = [playwright |-> FALSE]
    /\ toreta_service = [playwright |-> FALSE]
    /\ response = BlankResponse
    /\ turn = BlankTurn
    /\ requests = [t \in Threads |-> Idle]
    /\ driver_run = << >>

\* time passes between requests
Tick ==
    /\ now < MaxTime
    /\ now' = now + 1
    /\ UNCHANGED <<reservation_sessions, tabelog_service, toreta_service, response, turn,
                   requests, driver_run>>

Put(S, session_id, session) ==
    [k \in DOMAIN S \cup {session_id} |-> IF k = session_id THEN session ELSE S[k]]

start_reservation(restaurant) ==
    LET session_id == SessionIdOf(restaurant, now)
        availability == _check_restaurant_booking_availability(restaurant)
    IN \* one conversation is followed at a time: a session is started when
       \* the store is empty, or over the session that has the same id
       /\ DOMAIN reservation_sessions \subseteq {session_id}
       /\ IF ~availability.available
          THEN /\ response' = [BlankResponse EXCEPT
                                  !.kind = "start", !.session_id = Some(session_id),
                                  !.message = "not_available",
                                  !.availability_status = "not_available",
                                  !.end_session = TRUE]
               /\ UNCHANGED reservation_sessions
          ELSE /\ reservation_sessions' =
                      Put(reservation_sessions, session_id,
                          NewSession(restaurant, availability))
               /\ response' = [BlankResponse EXCEPT
                                  !.kind = "start", !.session_id = Some(session_id),
                                  !.message = "first_prompt", !.step = "datetime_input",
                                  !.availability_status = "available"]
       /\ turn' = [BlankTurn EXCEPT !.op = "start", !.session_id = Some(session_id),
                                    !.restaurant = Some(restaurant)]
       /\ UNCHANGED <<now, tabelog_service, toreta_service, requests, driver_run>>

\* variant of the dispatch that sends a session of an unknown step back to
\* the date step
HandleStepAt_restarts_unknown(S, session_id, current_step, user_input, reply, tpage, opage) ==
       CASE current_step = "initial" ->
                LET out == _handle_datetime_input(SetStep(S, session_id, "datetime_input"),
                                                  session_id, user_input, reply)
                IN [out EXCEPT !.writes = <<"datetime_input">> \o out.writes]
         [] current_step = "datetime_input" ->
                _handle_datetime_input(S, session_id, user_input, reply)
         [] current_step = "party_size_input" ->
                _handle_party_size_input(S, session_id, user_input)
         [] current_step = "contact_info_input" ->
                _handle_contact_info_input(S, session_id, user_input)
         [] current_step = "email_input" ->
                _handle_email_input(S, session_id, user_input)
         [] current_step = "special_requests_input" ->
                _handle_special_requests_input(S, session_id, user_input)
         [] current_step = "confirmation" ->
                _handle_confirmation(S, session_id, user_input, tpage, opage)
         [] OTHER ->
                Outcome(SetStep(S, session_id, "datetime_input"),
                        [StepResponse(Some(session_id), "absent", "message",
                                         "unknown_step")
                               EXCEPT !.restart_needed = TRUE], <<>>)

\* the handler of the session's step, applied to the store
HandleStepAt(S, session_id, current_step, user_input, reply, tpage, opage) ==
       CASE current_step = "initial" ->
                LET out == _handle_datetime_input(SetStep(S, session_id, "datetime_input"),
                                                  session_id, user_input, reply)
                IN [out EXCEPT !.writes = <<"datetime_input">> \o out.writes]
         [] current_step = "datetime_input" ->
                _handle_datetime_input(S, session_id, user_input, reply)
         [] current_step = "party_size_input" ->
                _handle_party_size_input(S, session_id, user_input)
         [] current_step = "contact_info_input" ->
                _handle_contact_info_input(S, session_id, user_input)
         [] current_step = "email_input" ->
                _handle_email_input(S, session_id, user_input)
         [] current_step = "special_requests_input" ->
                _handle_special_requests_input(S, session_id, user_input)
         [] current_step = "confirmation" ->
                _handle_confirmation(S, session_id, user_input, tpage, opage)
         [] OTHER ->
                Outcome(S, [StepResponse(Some(session_id), "absent", "message",
                                         "unknown_step")
                               EXCEPT !.restart_needed = TRUE], <<>>)

\* session = self.reservation_sessions[session_id]; current_step = session['step']
HandleStep(S, session_id, user_input, reply, tpage, opage) ==
    HandleStepAt(S, session_id, S[session_id].step, user_input, reply, tpage, opage)

\* the collaborators a turn can consult: the language model at the date
\* step, a site at an execute turn
Replies(S, session_id, user_input) ==
    IF session_id \in DOMAIN S /\ S[session_id].step \in {"initial", "datetime_input"}
       /\ ~IsBulkForm(user_input)
    THEN LLMReplies ELSE {<<"INVALID">>}

\* the message handed to _handle_bulk_form_data, when the turn takes that path
FormDataOf(S, session_id, user_input) ==
    IF S[session_id].step \in {"initial", "datetime_input"} /\ IsBulkForm(user_input)
    THEN Some(user_input) ELSE None

Executes(S, session_id, user_input) ==
    /\ session_id \in DOMAIN S
    /\ S[session_id].step = "confirmation"
    /\ IsExecute(user_input)

TabelogPagesFor(S, session_id, user_input) ==
    IF Executes(S, session_id, user_input)
       /\ Contains(S[session_id].restaurant.website, "tabelog.com")
    THEN TabelogResultPages ELSE {NoTabelogPage}

ToretaPagesFor(S, session_id, user_input) ==
    IF Executes(S, session_id, user_input)
       /\ ~Contains(S[session_id].restaurant.website, "tabelog.com")
    THEN ToretaResultPages ELSE {NoToretaPage}

process_reservation_step(session_id, user_input) ==
    IF session_id \notin DOMAIN reservation_sessions
    THEN /\ response' = [BlankResponse EXCEPT
                            !.kind = "step", !.error = "message",
                            !.message = "session_not_found", !.restart_needed = TRUE]
         /\ turn' = [BlankTurn EXCEPT !.op = "step", !.session_id = Some(session_id)]
         /\ UNCHANGED <<reservation_sessions, now, tabelog_service, toreta_service,
                        requests, driver_run>>
    ELSE \E reply \in Replies(reservation_sessions, session_id, user_input),
            tpage \in TabelogPagesFor(reservation_sessions, session_id, user_input),
            opage \in ToretaPagesFor(reservation_sessions, session_id, user_input) :
            \E out \in {HandleStep(reservation_sessions, session_id, user_input,
                                   reply, tpage, opage)} :
               /\ reservation_sessions' = out.store
               /\ response' = out.resp
               /\ turn' = [op |-> "step", session_id |-> Some(session_id),
                           restaurant |-> None,
                           reply |-> IF Replies(reservation_sessions, session_id,
                                                user_input) = LLMReplies
                                     THEN Some(reply) ELSE None,
                           writes |-> <<reservation_sessions[session_id].step>>
                                          \o out.writes,
                           driver |-> out.driver, raw |-> out.raw,
                           booking_result |-> out.booking_result,
                           browser |-> out.browser,
                           form_data |-> FormDataOf(reservation_sessions,
                                                    session_id, user_input)]
               /\ tabelog_service' = out.tabelog
               /\ toreta_service' = out.toreta
               /\ UNCHANGED <<now, requests, driver_run>>

get_session_status(session_id) ==
    /\ response' =
           IF session_id \notin DOMAIN reservation_sessions
           THEN [BlankResponse EXCEPT !.kind = "status", !.error = "message",
                                      !.message = "session_not_found"]
           ELSE [BlankResponse EXCEPT
                    !.kind = "status",
                    !.step = reservation_sessions[session_id].step,
                    !.data = Some(reservation_sessions[session_id].data)]
    /\ turn' = [BlankTurn EXCEPT !.op = "status", !.session_id = Some(session_id)]
    /\ UNCHANGED <<reservation_sessions, now, tabelog_service, toreta_service, requests,
                   driver_run>>

cancel_session(session_id) ==
    /\ IF session_id \in DOMAIN reservation_sessions
       THEN /\ reservation_sessions' = Delete(reservation_sessions, session_id)
            /\ response' = [BlankResponse EXCEPT !.kind = "cancel",
                                                 !.message = "session_cancelled"]
       ELSE /\ UNCHANGED reservation_sessions
            /\ response' = [BlankResponse EXCEPT !.kind = "cancel", !.error = "message",
                                                 !.message = "session_not_found"]
    /\ turn' = [BlankTurn EXCEPT !.op = "cancel", !.session_id = Some(session_id)]
    /\ UNCHANGED <<now, tabelog_service, toreta_service, requests, driver_run>>

Next ==
    \/ Tick
    \/ \E restaurant \in Restaurants : start_reservation(restaurant)
    \/ \E session_id \in SessionIds, user_input \in UserInputs :
           process_reservation_step(session_id, user_input)
    \/ \E session_id \in SessionIds : get_session_status(session_id)
    \/ \E session_id \in SessionIds : cancel_session(session_id)

Spec == Init /\ [][Next]_vars

\* the assessor alone, called on every restaurant record
Assess(restaurant) ==
    /\ response' = [BlankResponse EXCEPT
                       !.kind = "assess",
                       !.availability =
                           Some(_check_restaurant_booking_availability(restaurant))]
    /\ turn' = [BlankTurn EXCEPT !.op = "assess", !.restaurant = Some(restaurant)]
    /\ UNCHANGED <<reservation_sessions, now, tabelog_service, toreta_service, requests,
                   driver_run>>

NextAssess == \E restaurant \in AllRestaurants : Assess(restaurant)

SpecAssess == Init /\ [][NextAssess]_vars

----------------------------------------------------------------------------
(* Properties *)

Sid == Val(turn.session_id)
Live(session_id) == session_id \in DOMAIN reservation_sessions
IsStepOn(t, session_id) == t.op = "step" /\ t.session_id = Some(session_id)
\* the step is a request to the agent: the clock stands still during it
Request == now' = now
\* the turn dispatched a booking
IsExecuteTurn == turn.op = "step" /\ turn.booking_result # None

StepOrder ==
    <<"initial", "datetime_input", "party_size_input", "contact_info_input",
      "email_input", "special_requests_input", "confirmation", "completed">>

Rank(step) == CHOOSE i \in 1..Len(StepOrder) : StepOrder[i] = step

AllowedEdge(a, b) ==
    \/ Rank(b) = Rank(a) + 1
    \/ a = "datetime_input" /\ b = "confirmation"
    \/ a = "confirmation" /\ b = "confirmation"

C1_Turn ==
    \A sid \in DOMAIN reservation_sessions' :
        IF /\ sid \in DOMAIN reservation_sessions
           /\ ~(turn'.op = "start" /\ response'.availability_status = "available")
        THEN LET w == IF IsStepOn(turn', sid) THEN turn'.writes
                      ELSE <<reservation_sessions[sid].step>>
             IN /\ w[1] = reservation_sessions[sid].step
                /\ w[Len(w)] = reservation_sessions'[sid].step
                /\ \A i \in 1..(Len(w) - 1) : AllowedEdge(w[i], w[i + 1])
        ELSE reservation_sessions'[sid].step = "initial"

\* C1: a session starts at initial, and every value a turn assigns to its
\* stored step is the successor of the value before it in the order initial,
\* datetime_input, party_size_input, contact_info_input, email_input,
\* special_requests_input, confirmation, completed, or is the bulk-form jump
\* from datetime_input to confirmation; no other operation changes the step.
C1_StepSequence == [][Request => C1_Turn]_vars

C1_Witness ==
    /\ turn.op = "step" /\ Live(Sid)
    /\ turn.writes = <<"confirmation", "completed">>
    /\ reservation_sessions[Sid].data.special_requests = None
    /\ reservation_sessions[Sid].data.party_size = Some(2)

ExtractorSteps ==
    {"datetime_input", "party_size_input", "contact_info_input", "email_input"}

\* the extractor of the step rejects the input
ExtractorFails(step, user_input, reply, t) ==
    CASE step = "datetime_input" ->
             ~IsBulkForm(user_input) /\ reply # None
                 /\ IsNone(_parse_datetime_with_ai(Val(reply), t))
      [] step = "party_size_input" ->
             IsNone(_extract_party_size(user_input))
                 \/ Val(_extract_party_size(user_input)) = 0
      [] step = "contact_info_input" ->
             _extract_contact_info(user_input).name = <<>>
                 \/ _extract_contact_info(user_input).phone = <<>>
      [] step = "email_input" -> ~email_pattern(Strip(user_input))

\* the turn answered with the step it found and the error flag, and left
\* the store alone
Reprompted(sid) ==
    /\ response'.step = reservation_sessions[sid].step
    /\ response'.error = "True"
    /\ reservation_sessions' = reservation_sessions

\* the turn is processStep applied to an input its extractor rejects
RejectedInputTurn(sid) ==
    \E user_input \in UserInputs :
        /\ ExtractorFails(reservation_sessions[sid].step, user_input, turn'.reply, now)
        /\ process_reservation_step(sid, user_input)

C2_Turn ==
    \A sid \in DOMAIN reservation_sessions :
        (IsStepOn(turn', sid) /\ reservation_sessions[sid].step \in ExtractorSteps)
        => (Reprompted(sid) \/ ~RejectedInputTurn(sid))

\* C2: when the extractor of datetime_input, party_size_input,
\* contact_info_input or email_input rejects the input of a turn, the turn
\* answers with that same step and the error flag, and the store (the step
\* and every collected field of the session) is what it was before the turn.
C2_FailedExtractionKeepsSession == [][Request => C2_Turn]_vars

C2_Witness ==
    /\ turn.op = "step" /\ Live(Sid)
    /\ reservation_sessions[Sid].step = "contact_info_input"
    /\ response.step = "contact_info_input" /\ response.error = "True"
    /\ reservation_sessions[Sid].data.contact = None /\ reservation_sessions[Sid].data.party_size = Some(2)

NotFound(resp) == resp.error = "message" /\ resp.message = "session_not_found"

C3_Turn ==
    \A sid \in SessionIds :
        \* cancelSession succeeded, or a cancel-intent turn was answered
        /\ ( \/ (turn'.op = "cancel" /\ turn'.session_id = Some(sid)
                    /\ response'.error = "absent")
             \/ (IsStepOn(turn', sid) /\ response'.cancelled) )
           => sid \notin DOMAIN reservation_sessions'
        \* while the id is not in the store, a turn and a status query say so
        /\ (sid \notin DOMAIN reservation_sessions /\ IsStepOn(turn', sid))
           => /\ NotFound(response') /\ response'.restart_needed
              /\ reservation_sessions' = reservation_sessions
        /\ (sid \notin DOMAIN reservation_sessions /\ turn'.op = "status"
                /\ turn'.session_id = Some(sid))
           => NotFound(response')
        \* and only startReservation brings the id back
        /\ (sid \notin DOMAIN reservation_sessions /\ sid \in DOMAIN reservation_sessions')
           => turn'.op = "start"

\* C3: a successful cancelSession and a cancel-intent turn at confirmation
\* remove the session from the store; for an id that is not in the store
\* processStep answers session-not-found with restart_needed and
\* getSessionStatus answers not found; only startReservation puts an id back.
C3_CancelledSessionNotFound == [][Request => C3_Turn]_vars

C3_Witness ==
    /\ turn.op = "step" /\ response.cancelled
    /\ response.step = "completed"
    /\ ~Live(Sid)

\* C4: when the driver run of an execute turn returns success, the turn
\* reports step completed with success true, the stored step is completed and
\* the booking result is recorded on the session.
C4_SuccessCompletes ==
    (turn.op = "step" /\ turn.raw # None /\ Val(turn.raw).success)
    => /\ response.step = "completed" /\ response.success = "True"
       /\ Live(Sid)
       /\ reservation_sessions[Sid].step = "completed"
       /\ reservation_sessions[Sid].booking_result = turn.booking_result
       /\ response.booking_result = turn.booking_result

C4_Witness ==
    /\ turn.op = "step" /\ turn.driver = "toreta" /\ Val(turn.raw).success
    /\ response.step = "completed" /\ response.success = "True"
    /\ reservation_sessions[Sid].step = "completed"

\* C5: once a turn has reported ai_blocked, the session is terminal: the
\* next processStep on it runs no driver and leaves its stored step alone.
C5_AiBlockedIsTerminal ==
    [][ ( /\ turn.op = "step" /\ response.step = "ai_blocked"
          /\ Request /\ turn'.op = "step" /\ turn'.session_id = turn.session_id )
        => ( /\ turn'.driver = "none"
             /\ (Live(Sid) /\ Sid \in DOMAIN reservation_sessions')
                => reservation_sessions'[Sid].step = reservation_sessions[Sid].step
           ) ]_vars

\* C6: whenever the driver run of an execute turn returns a result with
\* semi_automated set, the turn reports step semi_automated without the error
\* flag and carries the driver's booking_info.
C6_SemiAutomatedReported ==
    (turn.op = "step" /\ turn.raw # None /\ Val(turn.raw).semi_automated)
    => /\ response.step = "semi_automated"
       /\ response.error = "False"
       /\ response.booking_info = Val(turn.raw).booking_info

\* C7: when the booking result of an execute turn is neither a success, nor
\* ai_detection, nor semi-automated, the turn reports completed with success
\* false and the session is still at confirmation.
C7_FailureIsRetryCapable ==
    ( /\ IsExecuteTurn
      /\ ~Val(turn.booking_result).success
      /\ Val(turn.booking_result).error # "ai_detection"
      /\ ~Val(turn.booking_result).semi_automated )
    => /\ response.step = "completed" /\ response.success = "False"
       /\ Live(Sid) /\ reservation_sessions[Sid].step = "confirmation"

\* C8: every execute turn reports one of completed with success true,
\* ai_blocked, semi_automated, completed with success false.
C8_FourOutcomes ==
    IsExecuteTurn
    => <<response.step, response.success>> \in
           {<<"completed", "True">>, <<"ai_blocked", "False">>,
            <<"semi_automated", "False">>, <<"completed", "False">>}

\* the domain of a website text: the netloc, or the first piece of a text
\* that has no //
DomainOf(url) == IF Netloc(url) # <<>> THEN Netloc(url) ELSE SplitSlash(url)[1]

HasSignature(text) ==
    Contains(text, "tabelog.com") \/ Contains(text, "toreta.in")
        \/ Contains(text, "toreta-reserve")

\* C9: an execute turn for a website whose domain has neither the Tabelog
\* nor a Toreta signature runs no driver, holds no browser, and its booking
\* result is the unsupported-site result naming the two supported systems;
\* a driver runs only for a domain that has its signature.
C9_UnsupportedSiteRunsNoDriver ==
    (IsExecuteTurn /\ Live(Sid))
    => LET domain == DomainOf(reservation_sessions[Sid].restaurant.website)
           result == Val(turn.booking_result)
       IN /\ ~HasSignature(domain)
             => /\ turn.driver = "none" /\ ~turn.browser
                /\ result.error = "not_supported"
                /\ Len(result.supported_systems) = 2
          /\ turn.driver = "tabelog" => Contains(domain, "tabelog.com")
          /\ turn.driver = "toreta"
             => (Contains(domain, "toreta.in") \/ Contains(domain, "toreta-reserve"))

\* the decision table of the assessor: the rows in order, each a condition
\* and a verdict
DecisionTable(restaurant) ==
    LET name == Lower(restaurant.name)
        phone == restaurant.phone_number # ""
        site == restaurant.website # <<>>
        Verdict(av, me, co, re, fb) ==
            [available |-> av, method |-> me, confidence |-> co, reason |-> re,
             fallback_phone |-> fb]
        rows == <<
            [when |-> ContainsAny(name, chain_restaurants) /\ (phone \/ site),
             verdict |-> Verdict(TRUE, "web_form", "0.8", "absent", "absent")],
            [when |-> ContainsAny(Lower(restaurant.website), reservation_keywords),
             verdict |-> Verdict(TRUE, "web_form", "0.9", "absent", "absent")],
            [when |-> phone /\ ContainsAny(name, exclusive_phone_only),
             verdict |-> Verdict(FALSE, "phone_only", "absent", "phone_only_upscale",
                                 "absent")],
            [when |-> phone,
             verdict |-> Verdict(TRUE, "web_form", "0.7", "absent",
                                 restaurant.phone_number)],
            [when |-> TRUE,
             verdict |-> Verdict(FALSE, "absent", "absent", "insufficient_information",
                                 "absent")] >>
        first == CHOOSE i \in 1..5 : rows[i].when /\ \A j \in 1..(i - 1) : ~rows[j].when
    IN rows[first].verdict

\* C10: for every restaurant record the verdict of the assessor is the
\* verdict of the first row of the decision table whose condition holds.
C10_AssessorFollowsDecisionTable ==
    turn.op = "assess"
    => LET v == Val(response.availability)
           d == DecisionTable(Val(turn.restaurant))
       IN /\ v.available = d.available /\ v.method = d.method
          /\ v.confidence = d.confidence /\ v.reason = d.reason
          /\ v.fallback_phone = d.fallback_phone

C10_Witness ==
    /\ turn.op = "assess"
    /\ Val(turn.restaurant).name = <<"kaiseki", "hanami">>
    /\ Val(turn.restaurant).phone_number = "03-1111-2222"
    /\ Val(turn.restaurant).website = <<>>
    /\ ~Val(response.availability).available
    /\ Val(response.availability).method = "phone_only"

\* C11: a start for a restaurant assessed unavailable, answered with the
\* end-of-session flag, leaves a session in the store under the session id
\* it returns, so that a status query on that id finds it.
C11_UnavailableStartStoresSession ==
    (turn.op = "start" /\ response.end_session) => Live(Sid)

BulkLabels == <<"nichiji:", "ninzu:", "namae:", "denwa:", "meeru:">>

\* the required labels the form does not contain
LabelsMissing(form_data) ==
    {i \in 1..Len(BulkLabels) : ~Contains(form_data, BulkLabels[i])}

\* the required fields whose pattern finds no match in the form
FieldsUnmatched(form_data) ==
    {i \in 1..Len(BulkLabels) :
        CASE i = 1 -> datetime_match(form_data) = None
          [] i = 2 -> party_size_match(form_data) = None
          [] i = 3 -> name_match(form_data) = None
          [] i = 4 -> phone_match(form_data) = None
          [] i = 5 -> email_match(form_data) = None}

\* the turn listed missing fields, the session is at datetime_input and its
\* collected fields are what they were
BulkRefused(sid) ==
    /\ response'.missing_fields # <<>>
    /\ response'.step = "datetime_input" /\ response'.error = "True"
    /\ sid \in DOMAIN reservation_sessions'
    /\ reservation_sessions'[sid].step = "datetime_input"
    /\ reservation_sessions'[sid].data = reservation_sessions[sid].data

\* the required fields are populated and the session is at confirmation
BulkAccepted(sid) ==
    /\ sid \in DOMAIN reservation_sessions'
    /\ reservation_sessions'[sid].step = "confirmation"
    /\ \A f \in {"datetime", "party_size", "contact", "email"} :
           ~IsNone(reservation_sessions'[sid].data[f])

\* the turn handed the session's message to the bulk form handler
BulkTurn(sid) == IsStepOn(turn', sid) /\ turn'.form_data # None

ExceptionMessages == {"exception", "bulk_exception"}

\* the session has the step it had when its handler was entered (the first
\* turn enters the date handler at datetime_input) and the fields it had
SessionAsBefore(sid) ==
    /\ sid \in DOMAIN reservation_sessions'
    /\ reservation_sessions'[sid].data = reservation_sessions[sid].data
    /\ reservation_sessions'[sid].step =
           IF reservation_sessions[sid].step = "initial" THEN "datetime_input"
           ELSE reservation_sessions[sid].step

\* C13: a turn of processStep answered by an except clause leaves the
\* session in the step and with the collected fields it had before the turn.
C13_CaughtFailureKeepsSession ==
    [][Request =>
        \A sid \in DOMAIN reservation_sessions :
            (IsStepOn(turn', sid) /\ response'.message \in ExceptionMessages)
            => SessionAsBefore(sid)]_vars


----------------------------------------------------------------------------
(* Concurrent requests: app.run serves each request on a thread of its own
   and process_reservation_step takes no lock *)

\* the restaurant and the messages of the concurrent requests
ThreadRestaurants ==
    { Restaurant("p1", <<"bistro">>, "03-1111-2222",
                 <<"https:", "/", "/", "tabelog.com", "/", "tokyo">>) }

ThreadInputs ==
    { <<"2", "mei">>, <<"tanaka", " ">> \o MobilePhone, EmailText, <<"nashi">>,
      <<"check-mark", "jikkou">>, <<"kyanseru">> }

\* a session is opened while no request is being handled
StartIdle(restaurant) ==
    /\ reservation_sessions = << >>
    /\ \A t \in Threads : requests[t].pc = "idle"
    /\ start_reservation(restaurant)

\* a thread takes a step request: the session lookup and the read of
\* session['step'], or the answer that the session is not known
ReadStep(t, session_id, user_input) ==
    /\ requests[t].pc = "idle"
    /\ IF session_id \notin DOMAIN reservation_sessions
       THEN /\ response' = [BlankResponse EXCEPT
                               !.kind = "step", !.error = "message",
                               !.message = "session_not_found", !.restart_needed = TRUE]
            /\ turn' = [BlankTurn EXCEPT !.op = "step", !.session_id = Some(session_id)]
            /\ UNCHANGED requests
       ELSE /\ requests' = [requests EXCEPT ![t] =
                               [pc |-> "handling", session_id |-> Some(session_id),
                                user_input |-> user_input,
                                current_step |-> reservation_sessions[session_id].step]]
            /\ UNCHANGED <<response, turn>>
    /\ UNCHANGED <<reservation_sessions, now, tabelog_service, toreta_service, driver_run>>

\* the store as the thread's handler is dispatched: the step it read
ViewOf(t) ==
    SetStep(reservation_sessions, Val(requests[t].session_id), requests[t].current_step)

\* the thread runs the handler of the step it read, on the store as it is now
RunHandler(t) ==
    /\ requests[t].pc = "handling"
    /\ requests' = [requests EXCEPT ![t] = Idle]
    /\ UNCHANGED <<now, driver_run>>
    /\ \E session_id \in {Val(requests[t].session_id)},
          user_input \in {requests[t].user_input} :
          IF session_id \notin DOMAIN reservation_sessions
          THEN \* the handler's lookup raises KeyError and its except clause answers
               /\ response' = StepResponse(None, requests[t].current_step, "True",
                                           "exception")
               /\ turn' = [BlankTurn EXCEPT !.op = "step",
                                            !.session_id = Some(session_id)]
               /\ UNCHANGED <<reservation_sessions, tabelog_service, toreta_service>>
          ELSE \E reply \in Replies(ViewOf(t), session_id, user_input),
                  tpage \in TabelogPagesFor(ViewOf(t), session_id, user_input),
                  opage \in ToretaPagesFor(ViewOf(t), session_id, user_input) :
                  \E out \in {HandleStepAt(reservation_sessions, session_id,
                                           requests[t].current_step, user_input,
                                           reply, tpage, opage)} :
                     /\ reservation_sessions' = out.store
                     /\ response' = out.resp
                     /\ turn' = [op |-> "step", session_id |-> Some(session_id),
                                 restaurant |-> None,
                                 reply |-> IF Replies(ViewOf(t), session_id, user_input)
                                              = LLMReplies
                                           THEN Some(reply) ELSE None,
                                 writes |-> <<requests[t].current_step>> \o out.writes,
                                 driver |-> out.driver, raw |-> out.raw,
                                 booking_result |-> out.booking_result,
                                 browser |-> out.browser,
                                 form_data |-> FormDataOf(ViewOf(t), session_id,
                                                          user_input)]
                     /\ tabelog_service' = out.tabelog
                     /\ toreta_service' = out.toreta

NextThreads ==
    \/ \E restaurant \in ThreadRestaurants : StartIdle(restaurant)
    \/ \E t \in Threads, session_id \in SessionIds, user_input \in ThreadInputs :
          ReadStep(t, session_id, user_input)
    \/ \E t \in Threads : RunHandler(t)

SpecThreads == Init /\ [][NextThreads]_vars

\* the threads that are inside a step handler of the session
InFlight(session_id) ==
    {t \in Threads : requests[t].pc = "handling"
                     /\ requests[t].session_id = Some(session_id)}

\* C14: at most one step handler is in flight for a session at any time.
C14_OneHandlerInFlight ==
    \A session_id \in SessionIds : Cardinality(InFlight(session_id)) <= 1


\* C15: a start that opens a session returns an id that no live session
\* holds, and leaves every session that was live as it was.
C15_StartNeverOverwrites ==
    [][(Request /\ turn'.op = "start" /\ response'.availability_status = "available")
       => /\ Val(turn'.session_id) \notin DOMAIN reservation_sessions
          /\ \A sid \in DOMAIN reservation_sessions :
                 /\ sid \in DOMAIN reservation_sessions'
                 /\ reservation_sessions'[sid] = reservation_sessions[sid]]_vars


\* C16: when a driver run that held a browser has returned, the service of
\* that driver holds no browser any more.
C16_BrowserReleased ==
    turn.browser => /\ turn.driver = "tabelog" => ~tabelog_service.playwright
                    /\ turn.driver = "toreta" => ~toreta_service.playwright


\* C17: a driver run that holds a browser started that browser itself: the
\* service held none when the run began, so no browser or page of an earlier
\* run is used again.
C17_OwnBrowserPerRun ==
    [][(Request /\ turn'.op = "step" /\ turn'.browser)
       => /\ turn'.driver = "tabelog" => ~tabelog_service.playwright
          /\ turn'.driver = "toreta" => ~toreta_service.playwright]_vars


\* C18: the party size of every stored session is absent or at least 1.
C18_PartySizePositive ==
    \A sid \in DOMAIN reservation_sessions :
        \/ IsNone(reservation_sessions[sid].data.party_size)
        \/ Val(reservation_sessions[sid].data.party_size) >= 1


\* the reply is a well-formed timestamp strictly later than t
WellFormedAndLater(reply, t) ==
    /\ reply # <<"INVALID">>
    /\ ~IsNone(fromisoformat(reply))
    /\ Instant(Val(fromisoformat(reply))) > t

\* the turn consulted the date extractor for the session
ExtractorTurn(sid) ==
    /\ IsStepOn(turn', sid) /\ turn'.reply # None
    /\ reservation_sessions[sid].step \in {"initial", "datetime_input"}

C19_Turn ==
    \A sid \in DOMAIN reservation_sessions :
        ExtractorTurn(sid)
        => /\ sid \in DOMAIN reservation_sessions'
           /\ IF WellFormedAndLater(Val(turn'.reply), now)
              THEN /\ reservation_sessions'[sid].data.datetime = turn'.reply
                   /\ reservation_sessions'[sid].step = "party_size_input"
              ELSE /\ response'.step = "datetime_input" /\ response'.error = "True"
                   /\ reservation_sessions'[sid].step = "datetime_input"
                   /\ reservation_sessions'[sid].data = reservation_sessions[sid].data

\* C19: the date extractor accepts a reply only when it is a well-formed
\* ISO-8601 timestamp strictly later than now; the rejection token, a
\* malformed value and a timestamp at or before now are failures that leave
\* the session at datetime_input with its fields unchanged.
C19_ExtractorAcceptsOnlyFuture == [][Request => C19_Turn]_vars

\* a well-formed timestamp equal to now was rejected
C19_Witness ==
    /\ turn.op = "step" /\ Live(Sid) /\ now = 0
    /\ turn.reply = Some(<<"D0", "T", "00:00", ":00">>)
    /\ response.step = "datetime_input" /\ response.error = "True"
    /\ reservation_sessions[Sid].step = "datetime_input"


\* the inputs that reach the edit, the continue and the last branch of
\* _handle_confirmation
ReachesEdit(user_input) ==
    ~IsExecute(user_input) /\ ~IsCancel(user_input) /\ IsEdit(user_input)
ReachesContinue(user_input) ==
    /\ ~IsExecute(user_input) /\ ~IsCancel(user_input) /\ ~IsEdit(user_input)
    /\ IsContinue(user_input)
Unrecognized(user_input) ==
    /\ ~IsExecute(user_input) /\ ~IsCancel(user_input) /\ ~IsEdit(user_input)
    /\ ~IsContinue(user_input)

C20_Turn ==
    \A sid \in DOMAIN reservation_sessions : \A user_input \in UserInputs :
        (/\ IsStepOn(turn', sid)
         /\ reservation_sessions[sid].step = "confirmation"
         /\ ~IsExecute(user_input) /\ ~IsCancel(user_input)
         /\ process_reservation_step(sid, user_input))
        => /\ sid \in DOMAIN reservation_sessions'
           /\ reservation_sessions'[sid].step = "confirmation"
           /\ reservation_sessions'[sid].data = reservation_sessions[sid].data
           /\ (response'.error = "True") <=> Unrecognized(user_input)

\* C20: at confirmation an edit intent, an empty or continue input and an
\* unrecognized input leave the stored step at confirmation and the fields
\* unchanged, and only the unrecognized input is answered with the error flag.
C20_NonExecutingInputsKeepSession == [][Request => C20_Turn]_vars


\* C21: a turn at confirmation that takes the cancel branch is answered with
\* the terminal step cancelled.
C21_CancelReportsCancelled ==
    (turn.op = "step" /\ response.cancelled) => response.step = "cancelled"


\* C22: the assessment of a session is the one start_reservation computed
\* for its restaurant, and no processStep, getSessionStatus or cancelSession
\* changes it while the session lives.
C22_AssessmentComputedOnce ==
    [][Request =>
        /\ (turn'.op = "start" /\ response'.availability_status = "available")
           => reservation_sessions'[Val(turn'.session_id)].availability =
                  _check_restaurant_booking_availability(Val(turn'.restaurant))
        /\ turn'.op # "start"
           => \A sid \in DOMAIN reservation_sessions \cap DOMAIN reservation_sessions' :
                  reservation_sessions'[sid].availability =
                      reservation_sessions[sid].availability]_vars

\* a session that turns have carried to confirmation holds the assessment of
\* its restaurant
C22_Witness ==
    /\ turn.op = "step" /\ Live(Sid)
    /\ reservation_sessions[Sid].step = "confirmation"
    /\ reservation_sessions[Sid].availability =
           _check_restaurant_booking_availability(reservation_sessions[Sid].restaurant)


----------------------------------------------------------------------------
(* The site drivers on their own: one run per page behaviour *)

\* the URLs a run is given
DriverUrls ==
    { <<"https:", "/", "/", "tabelog.com", "/", "tokyo">>,
      <<"https:", "/", "/", "yoyaku.", "toreta.in", "/", "abc">>,
      <<"https:", "/", "/", "example.com">> }

\* customer_info of the runs
DriverCustomer == [name |-> <<"tanaka">>, phone |-> <<"090-1234-5678">>,
                   email |-> Some(<<"a@b.com">>)]

\* tabelog_service.make_reservation(url, date, time, party_size, customer_info)
RunTabelog(restaurant_url, page) ==
    \E run \in {TabelogMakeReservation(tabelog_service, restaurant_url, "D1", "19:00", 2,
                                       DriverCustomer, page)} :
        /\ driver_run' = <<[driver |-> "tabelog", url |-> restaurant_url, page |-> page,
                            result |-> run.result, trace |-> run.trace]>>
        /\ tabelog_service' = run.service
        /\ UNCHANGED <<reservation_sessions, now, toreta_service, response, turn, requests>>

\* toreta_service.make_reservation(url, date, time, party_size, customer_info)
RunToreta(restaurant_url, page) ==
    \E run \in {ToretaMakeReservation(toreta_service, restaurant_url, "D1", "19:00", 2,
                                      DriverCustomer, page)} :
        /\ driver_run' = <<[driver |-> "toreta", url |-> restaurant_url, page |-> page,
                            result |-> run.result, trace |-> run.trace]>>
        /\ toreta_service' = run.service
        /\ UNCHANGED <<reservation_sessions, now, tabelog_service, response, turn, requests>>

\* TabelogReservationService._confirm_and_submit on a page of the booking form
RunTabelogSubmit(page) ==
    \E run \in {_confirm_and_submit(page)} :
        /\ driver_run' = <<[driver |-> "tabelog_submit", url |-> <<>>, page |-> page,
                            result |-> run.result, trace |-> run.trace]>>
        /\ UNCHANGED <<reservation_sessions, now, tabelog_service, toreta_service,
                       response, turn, requests>>

NextDrivers ==
    \/ \E restaurant_url \in DriverUrls, page \in TabelogPages :
           RunTabelog(restaurant_url, page)
    \/ \E restaurant_url \in DriverUrls, page \in ToretaPages :
           RunToreta(restaurant_url, page)
    \/ \E page \in SubmitPages : RunTabelogSubmit(page)

SpecDrivers == Init /\ [][NextDrivers]_vars

\* the run that was made last
Run == Val(driver_run)
Ran(driver) == driver_run # << >> /\ Run.driver = driver
\* the run got as far as loading the page of the restaurant
Landed == driver_run # << >> /\ Contains(Run.trace, "goto")
\* the steps the run tried after its first bot-detection gate / after landing
Tried(step) == Contains(Run.trace, step)


\* the steps that follow the bot-detection gate on the landing page
StepsAfterGate ==
    {"entry_search", "click", "date", "time", "party_size", "time_party", "course",
     "seat", "customer_info", "submit"}

\* C23: a run of either driver that lands on a page carrying a block marker
\* returns an ai_detection result with manual instructions and the phone
\* number the page shows, and tries no entry search, field or submission.
C23_BotGateIsHardStop ==
    (Landed /\ Run.driver \in {"tabelog", "toreta"} /\ Run.page.blocked_on_landing)
    => /\ Run.result.error = "ai_detection"
       /\ Run.result.instructions
       /\ (Run.driver = "tabelog" /\ Run.page.phone_found)
              => Run.result.phone_number # None
       /\ \A step \in StepsAfterGate : ~Tried(step)


\* the steps that populate the booking form or submit it
FormSteps ==
    {"date", "time", "party_size", "time_party", "course", "seat", "customer_info",
     "submit"}

\* the run searched the reservation entry and no candidate selector showed
\* an element
NoEntryFound ==
    /\ Landed /\ Run.driver \in {"tabelog", "toreta"}
    /\ Tried("entry_search") /\ ~Run.page.entry_found

\* C24: a run of either driver whose entry search finds no element returns
\* a result that requires manual booking with the phone fallback, and fills
\* no field and submits nothing.
C24_NoEntryIsPhoneFallback ==
    NoEntryFound
    => /\ Run.result.manual_booking_required
       /\ ~Run.result.success
       /\ \A step \in FormSteps : ~Tried(step)


\* the date, time or party-size step of the run failed on the page
FieldStepFailed ==
    /\ Landed /\ Run.driver \in {"tabelog", "toreta"}
    /\ Tried("date")
    /\ \/ ~Run.page.date_ok
       \/ ~Run.page.time_ok
       \/ Run.driver = "tabelog" /\ ~Run.page.party_ok

\* C25: in a run of either driver that reached the date step, the failure of
\* the date, time or party-size step does not end the run: the time and
\* party-size steps and the contact filling are still tried.
C25_FieldStepsAreBestEffort ==
    FieldStepFailed
    => /\ Run.driver = "tabelog" => Tried("time") /\ Tried("party_size")
       /\ Run.driver = "toreta" => Tried("time_party")
       /\ Tried("customer_info")


\* the run passed the landing gate and the entry search of its driver
PassedBothGates ==
    /\ Landed /\ Run.driver \in {"tabelog", "toreta"}
    /\ ~Run.page.nav_timeout
    /\ ~Run.page.blocked_on_landing
    /\ Run.page.entry_found
    /\ Tried("click")

\* C26: a run of either driver that has passed the landing gate and found
\* the reservation entry returns a success, a semi-automated result or the
\* submission_failed result, and no other failure kind.
C26_OnlyThreeOutcomesAfterGates ==
    PassedBothGates
    => \/ Run.result.success
       \/ Run.result.semi_automated
       \/ Run.result.error = "submission_failed"


\* the identifier synthesized by each driver when no pattern matches
SynthesizedId ==
    IF Run.driver = "toreta" THEN "TRT-timestamp" ELSE "TBL-timestamp"

\* C27: whenever a driver's submission step has looked for the completion
\* markers, a found marker gives a success result whose reservation id is
\* the one matched on the page or else the synthesized timestamp id, and no
\* marker gives the submission_failed result, which is neither ai_detection
\* nor semi-automated.
C27_MarkersDecideCompletion ==
    (driver_run # << >> /\ Tried("markers"))
    => IF Run.page.completed
       THEN /\ Run.result.success
            /\ Run.result.reservation_id # None
            /\ Run.result.reservation_id =
                   Some(IF Run.page.id_found THEN "site-id" ELSE SynthesizedId)
       ELSE /\ ~Run.result.success
            /\ Run.result.error = "submission_failed"
            /\ Run.result.error # "ai_detection"
            /\ ~Run.result.semi_automated

\* a Toreta run submitted, found a completion marker and no identifier on
\* the page
C27_Witness ==
    /\ Ran("toreta") /\ Tried("submit") /\ Tried("markers")
    /\ Run.page.completed /\ ~Run.page.id_found
    /\ Run.result.success
    /\ Run.result.reservation_id = Some("TRT-timestamp")


\* C28: a run of either driver whose navigation to the target URL times out
\* is not ended by the timeout: it goes on with the steps that follow the
\* navigation.
C28_NavigationTimeoutTolerated ==
    (Landed /\ Run.driver \in {"tabelog", "toreta"}
        /\ Run.page.nav_timeout /\ ~Run.page.blocked_on_landing)
    => /\ Run.driver = "tabelog" => Tried("bot_gate") /\ Tried("entry_search")
       /\ Run.driver = "toreta" => Tried("entry_search") /\ Tried("date")


\* ---------------------------------------------------------------------
\* The date step of a Tabelog run, one page operation at a time
\* ---------------------------------------------------------------------

MaxMonths == 2

\* the months a calendar can show, counted from the month of today; a
\* calendar advanced beyond the last one is shown as the last one
Months == 0..MaxMonths

\* the booking form as _select_date meets it: a date input field or a
\* calendar with a header, a next-month button that is absent, is removed at
\* the last month or is always offered, and a header text that either has
\* the zero-padded form of strftime('%Y年%m月') or another form
CalendarPages ==
    [date_input : BOOLEAN, header : BOOLEAN, header_stays : BOOLEAN, padded : BOOLEAN,
     next_button : {"absent", "until_last", "endless"}, day_found : BOOLEAN,
     first_shown : Months]

\* the page of a run that reached the booking form, by the outcome of the
\* date step
BookingFormPage(date_selected) ==
    [launch_ok |-> TRUE, nav_timeout |-> FALSE, blocked_on_landing |-> FALSE,
     phone_found |-> FALSE, entry_found |-> TRUE, blocked_after_click |-> FALSE,
     date_ok |-> date_selected, time_ok |-> TRUE, party_ok |-> TRUE, info_ok |-> TRUE,
     crash |-> FALSE]

InSelectDate(pc) == driver_run # << >> /\ Val(driver_run).pc = pc

\* month_year in current_text
MonthShown(run) == run.page.padded /\ run.shown = run.month

NextButtonFound(run) ==
    \/ run.page.next_button = "endless"
    \/ run.page.next_button = "until_last" /\ run.shown < MaxMonths

SelectDateGoes(pc, shown, date_selected) ==
    /\ driver_run' = <<[Val(driver_run) EXCEPT !.pc = pc, !.shown = shown,
                                               !.date_selected = date_selected]>>
    /\ UNCHANGED <<reservation_sessions, now, tabelog_service, toreta_service,
                   response, turn, requests>>

\* make_reservation reaches its call of _select_date(reservation_date)
SelectDateEnter(month, page) ==
    /\ driver_run = << >> \/ InSelectDate("returned")
    /\ driver_run' = <<[driver |-> "tabelog", pc |-> "date_input", month |-> month,
                        page |-> page, shown |-> page.first_shown,
                        date_selected |-> FALSE, result |-> None]>>
    /\ UNCHANGED <<reservation_sessions, now, tabelog_service, toreta_service,
                   response, turn, requests>>

\* a date input field is filled, or else the calendar is opened
SelectDateInput ==
    /\ InSelectDate("date_input")
    /\ IF Val(driver_run).page.date_input
       THEN SelectDateGoes("date_done", Val(driver_run).shown, TRUE)
       ELSE SelectDateGoes("header", Val(driver_run).shown, FALSE)

\* current_month = query_selector('.calendar-header, .month-year')
SelectDateHeader ==
    /\ InSelectDate("header")
    /\ SelectDateGoes(IF Val(driver_run).page.header THEN "month_test" ELSE "day",
                      Val(driver_run).shown, FALSE)

\* while month_year not in current_text: look for the next-month button
SelectDateMonthTest ==
    /\ InSelectDate("month_test")
    /\ SelectDateGoes(IF MonthShown(Val(driver_run)) THEN "day"
                      ELSE IF NextButtonFound(Val(driver_run)) THEN "next_month"
                      ELSE "day",
                      Val(driver_run).shown, FALSE)

\* next_button.click(), then the header is read again
SelectDateNextMonth ==
    /\ InSelectDate("next_month")
    /\ SelectDateGoes(IF Val(driver_run).page.header_stays THEN "month_test" ELSE "day",
                      IF Val(driver_run).shown < MaxMonths
                      THEN Val(driver_run).shown + 1 ELSE Val(driver_run).shown,
                      FALSE)

\* the day selectors are waited for in turn, each for 3 seconds
SelectDateDay ==
    /\ InSelectDate("day")
    /\ SelectDateGoes("date_done", Val(driver_run).shown, Val(driver_run).page.day_found)

\* an exception of a page operation: except Exception -> return False
SelectDateRaises ==
    /\ driver_run # << >>
    /\ Val(driver_run).pc \in {"date_input", "header", "month_test", "next_month", "day"}
    /\ SelectDateGoes("date_done", Val(driver_run).shown, FALSE)

\* the rest of make_reservation after _select_date returned
TabelogRunReturns ==
    /\ InSelectDate("date_done")
    /\ \E run \in {TabelogMakeReservation(tabelog_service,
                       <<"https:", "/", "/", "tabelog.com", "/", "tokyo">>, "D1", "19:00",
                       2, DriverCustomer,
                       BookingFormPage(Val(driver_run).date_selected))} :
           /\ driver_run' = <<[Val(driver_run) EXCEPT !.pc = "returned",
                                                      !.result = Some(run.result)]>>
           /\ tabelog_service' = run.service
    /\ UNCHANGED <<reservation_sessions, now, toreta_service, response, turn, requests>>

\* the steps of a run in progress, which the event loop keeps resuming
SelectDateStep ==
    \/ SelectDateInput
    \/ SelectDateHeader
    \/ SelectDateMonthTest
    \/ SelectDateNextMonth
    \/ SelectDateDay
    \/ SelectDateRaises
    \/ TabelogRunReturns

NextCalendar ==
    \/ \E month \in Months, page \in CalendarPages : SelectDateEnter(month, page)
    \/ SelectDateStep

SpecCalendar == Init /\ [][NextCalendar]_vars /\ WF_vars(SelectDateStep)

\* C29: every Tabelog run that enters its date step returns a result.
C29_DriverRunReturns ==
    (driver_run # << >>) ~> InSelectDate("returned")


\* ---------------------------------------------------------------------
\* The party-size step on bounded inputs
\* ---------------------------------------------------------------------

MaxInputLen == 3

PartySizeLexemes == {"0", "1", "2", "ni", "roku", "mei"}

PartySizeTexts == UNION {[1..n -> PartySizeLexemes] : n \in 0..MaxInputLen}

PartySizeRestaurant ==
    Restaurant("p1", <<"bistro">>, "03-1111-2222",
               <<"https:", "/", "/", "tabelog.com", "/", "tokyo">>)

PartySizeSession == SessionIdOf(PartySizeRestaurant, 0)

\* the store with one session that has its date and waits for the party size
PartySizeStore ==
    SetStep(SetData(Put(<< >>, PartySizeSession,
                        NewSession(PartySizeRestaurant,
                                   _check_restaurant_booking_availability(
                                       PartySizeRestaurant))),
                    PartySizeSession, "datetime",
                    _parse_datetime_with_ai(<<"D0", "T", "19:00", ":00">>, 0)),
            PartySizeSession, "party_size_input")

\* _handle_party_size_input(session_id, user_input) on that session
PartySizeTurn(user_input) ==
    \E out \in {_handle_party_size_input(PartySizeStore, PartySizeSession, user_input)} :
        /\ reservation_sessions' = out.store
        /\ response' = out.resp
        /\ turn' = [BlankTurn EXCEPT !.op = "party_size",
                                     !.session_id = Some(PartySizeSession)]
        /\ driver_run' = <<[driver |-> "extract_party_size", user_input |-> user_input,
                            party_size |-> _extract_party_size(user_input)]>>
        /\ UNCHANGED <<now, tabelog_service, toreta_service, requests>>

NextPartySize == \E user_input \in PartySizeTexts : PartySizeTurn(user_input)

SpecPartySize == Init /\ [][NextPartySize]_vars

\* the value of the digits text[i..j] where i is the first digit of the text
\* and j the last position of the run that starts there
ValueOfFirstDigits(text) ==
    LET i == CHOOSE k \in 1..Len(text) :
                 text[k] \in Digits /\ \A m \in 1..(k-1) : text[m] \notin Digits
        j == CHOOSE k \in i..Len(text) :
                 /\ \A m \in i..k : text[m] \in Digits
                 /\ k = Len(text) \/ text[k+1] \notin Digits
    IN ToInt(SubSeq(text, i, j))

\* the numerals of one to six that the text contains, as values
KanjiValuesIn(text) == {n \in 1..6 : \E k \in 1..Len(text) : text[k] = KanjiNumerals[n]}

\* C30: the party size extracted from an input is the value of its first run
\* of digits when it has a digit, else the least of the kanji numerals one to
\* six it contains, else nothing; on nothing or 0 the party-size step
\* answers with its prompt again and leaves the session as it was, and on
\* any other value it stores the value and moves to contact_info_input.
C30_PartySizeExtraction ==
    (driver_run # << >> /\ Run.driver = "extract_party_size")
    => /\ (\E k \in 1..Len(Run.user_input) : Run.user_input[k] \in Digits)
              => Run.party_size = Some(ValueOfFirstDigits(Run.user_input))
       /\ ((\A k \in 1..Len(Run.user_input) : Run.user_input[k] \notin Digits)
              /\ KanjiValuesIn(Run.user_input) # {})
              => /\ Run.party_size # None
                 /\ Val(Run.party_size) \in KanjiValuesIn(Run.user_input)
                 /\ \A n \in KanjiValuesIn(Run.user_input) : Val(Run.party_size) <= n
       /\ ((\A k \in 1..Len(Run.user_input) : Run.user_input[k] \notin Digits)
              /\ KanjiValuesIn(Run.user_input) = {})
              => Run.party_size = None
       /\ IF Run.party_size = None \/ Run.party_size = Some(0)
          THEN /\ response.step = "party_size_input"
               /\ response.error = "True"
               /\ reservation_sessions = PartySizeStore
          ELSE /\ reservation_sessions[PartySizeSession].step = "contact_info_input"
               /\ reservation_sessions[PartySizeSession].data.party_size
                      = Run.party_size

\* the input 六二 (six, two) was read as 2 and stored
C30_Witness ==
    /\ driver_run # << >> /\ Run.driver = "extract_party_size"
    /\ Run.user_input = <<"roku", "ni">>
    /\ Run.party_size = Some(2)
    /\ reservation_sessions[PartySizeSession].data.party_size = Some(2)


\* ---------------------------------------------------------------------
\* The contact step on composed inputs
\* ---------------------------------------------------------------------

LandlinePhone == <<"0", "3", "-", "1", "2", "3", "4", "-", "5", "6", "7", "8">>

\* what the user writes before the phone, as the phone and after it
ContactPrefixes ==
    { <<>>, <<"tanaka">>, <<"tanaka", " ">>, <<"tanaka", "touten">>,
      <<"4", "2", " ", "tanaka", " ">>, LandlinePhone \o <<" ">> }

ContactPhones ==
    { <<>>, MobilePhone, LandlinePhone,
      <<"0", "9", "0", "1", "2", "3", "4", "5", "6", "7", "8">>,
      <<"1", "2", "3", "4", "5", "6", "7", "8", "9", "0">>,
      <<"1", "2", "3", "-", "4", "5", "6">> }

ContactSuffixes == { <<>>, <<" ">>, <<" ", "7">>, <<" ", "sato">>, <<",", " ">> \o MobilePhone }

\* the store with one session that waits for the contact
ContactStore ==
    _handle_party_size_input(PartySizeStore, PartySizeSession, <<"2", "mei">>).store

\* _handle_contact_info_input(session_id, user_input) on that session
ContactTurn(prefix, phone, suffix) ==
    \E out \in {_handle_contact_info_input(ContactStore, PartySizeSession,
                                           prefix \o phone \o suffix)} :
        /\ reservation_sessions' = out.store
        /\ response' = out.resp
        /\ turn' = [BlankTurn EXCEPT !.op = "contact",
                                     !.session_id = Some(PartySizeSession)]
        /\ driver_run' = <<[driver |-> "extract_contact_info",
                            user_input |-> prefix \o phone \o suffix,
                            contact_info |->
                                _extract_contact_info(prefix \o phone \o suffix)]>>
        /\ UNCHANGED <<now, tabelog_service, toreta_service, requests>>

NextContact ==
    \E prefix \in ContactPrefixes, phone \in ContactPhones, suffix \in ContactSuffixes :
        ContactTurn(prefix, phone, suffix)

SpecContact == Init /\ [][NextContact]_vars

\* the maximal pieces of a text between separators, in order
RECURSIVE TokensOf(_, _, _)
TokensOf(text, i, token) ==
    IF i > Len(text) THEN (IF token = <<>> THEN <<>> ELSE <<token>>)
    ELSE IF text[i] \in Separators
    THEN (IF token = <<>> THEN <<>> ELSE <<token>>) \o TokensOf(text, i + 1, <<>>)
    ELSE TokensOf(text, i + 1, Append(token, text[i]))

IsNumericToken(token) == \A j \in 1..Len(token) : token[j] \in Digits

RECURSIVE JoinedBySpace(_)
JoinedBySpace(tokens) ==
    IF tokens = <<>> THEN <<>>
    ELSE IF Len(tokens) = 1 THEN tokens[1]
    ELSE tokens[1] \o <<" ">> \o JoinedBySpace(Tail(tokens))

NotNumeric(token) == ~IsNumericToken(token)

\* the phone the claim expects: the match of the first of the patterns
\* mobile, landline, bare digits that matches
ExpectedPhone(text) ==
    IF PhoneSearch(1, text) # <<>> THEN PhoneSearch(1, text)
    ELSE IF PhoneSearch(2, text) # <<>> THEN PhoneSearch(2, text)
    ELSE PhoneSearch(3, text)

\* the name the claim expects: the text without the phone, its tokens that
\* are not numbers
ExpectedName(text, phone) ==
    JoinedBySpace(SelectSeq(TokensOf(IF phone = <<>> THEN text
                                     ELSE RemoveAll(text, phone), 1, <<>>),
                            NotNumeric))

ContactRun == driver_run # << >> /\ Run.driver = "extract_contact_info"

\* C31: the phone extracted from an input is the match of the first of the
\* patterns mobile, landline, bare digits that matches; the name is the
\* input without that phone, without separators and without numeric tokens;
\* the contact step stores both and moves to email_input only when neither
\* is empty, and otherwise answers at contact_info_input and stores nothing.
C31_ContactExtraction ==
    ContactRun
    => /\ Run.contact_info.phone = ExpectedPhone(Run.user_input)
       /\ Run.contact_info.name
              = ExpectedName(Run.user_input, ExpectedPhone(Run.user_input))
       /\ Run.user_input = <<"tanaka", " ">> \o MobilePhone
              => Run.contact_info = [name |-> <<"tanaka">>, phone |-> MobilePhone]
       /\ IF Run.contact_info.name # <<>> /\ Run.contact_info.phone # <<>>
          THEN /\ reservation_sessions[PartySizeSession].step = "email_input"
               /\ response.step = "email_input"
               /\ reservation_sessions[PartySizeSession].data.contact # None
               /\ Val(reservation_sessions[PartySizeSession].data.contact).name
                      = Run.contact_info.name
               /\ Val(reservation_sessions[PartySizeSession].data.contact).phone
                      = Run.contact_info.phone
          ELSE /\ reservation_sessions = ContactStore
               /\ response.step = "contact_info_input"
               /\ response.error = "True"

\* an input with a landline before a mobile number: the mobile number is
\* the phone and the session moved on
C31_Witness ==
    /\ ContactRun
    /\ Run.user_input = LandlinePhone \o <<" ">> \o MobilePhone
    /\ Run.contact_info.phone = MobilePhone
    /\ Run.contact_info.name = LandlinePhone
    /\ reservation_sessions[PartySizeSession].step = "email_input"


\* ---------------------------------------------------------------------
\* The email step on bounded inputs
\* ---------------------------------------------------------------------

MaxEmailLen == 6

EmailLexemes == {"a", "1", "@", "."}

\* the inputs: a text of the lexemes, typed with or without a space before
\* it and after it
EmailTexts ==
    {before \o text \o after :
        before \in {<<>>, <<" ">>}, after \in {<<>>, <<" ">>},
        text \in UNION {[1..n -> EmailLexemes] : n \in 0..MaxEmailLen}}

\* the store with one session that has its contact and waits for the email
EmailStore ==
    _handle_contact_info_input(ContactStore, PartySizeSession,
                               <<"tanaka", " ">> \o MobilePhone).store

\* _handle_email_input(session_id, user_input) on that session
EmailTurn(user_input) ==
    /\ \E out \in {_handle_email_input(EmailStore, PartySizeSession, user_input)} :
        /\ reservation_sessions' = out.store
        /\ response' = out.resp
        /\ turn' = [BlankTurn EXCEPT !.op = "email",
                                     !.session_id = Some(PartySizeSession)]
        /\ driver_run' = <<[driver |-> "email", user_input |-> user_input]>>
        /\ UNCHANGED <<now, tabelog_service, toreta_service, requests>>

\* one turn is taken on the session
NextEmail ==
    /\ driver_run = << >>
    /\ \E user_input \in EmailTexts : EmailTurn(user_input)

SpecEmail == Init /\ [][NextEmail]_vars

\* text without the spaces around it
Trimmed(text) ==
    IF \A i \in 1..Len(text) : text[i] = " " THEN <<>>
    ELSE SubSeq(text,
                CHOOSE i \in 1..Len(text) :
                    text[i] # " " /\ \A j \in 1..(i-1) : text[j] = " ",
                CHOOSE i \in 1..Len(text) :
                    text[i] # " " /\ \A j \in (i+1)..Len(text) : text[j] = " ")

\* text is local@domain.tld: a local part, an at sign, a domain, a dot and a
\* top-level domain of two letters or more
IsLocalAtDomainTld(text) ==
    \E local, domain, tld \in 1..Len(text) :
        /\ local + 1 + domain + 1 + tld = Len(text)
        /\ tld >= 2
        /\ \A i \in 1..local : text[i] \in LocalClass
        /\ text[local + 1] = "@"
        /\ \A i \in (local + 2)..(local + 1 + domain) : text[i] \in DomainClass
        /\ text[local + domain + 2] = "."
        /\ \A i \in (local + domain + 3)..Len(text) : text[i] \in Letters

EmailRun == driver_run # << >> /\ Run.driver = "email"

\* C32: the email step stores the trimmed input as the email and moves to
\* special_requests_input exactly when the trimmed input is of the form
\* local@domain.tld; on any other input the session stays as it was, at
\* email_input and without an email.
C32_EmailStepIffGrammar ==
    EmailRun
    => IF IsLocalAtDomainTld(Trimmed(Run.user_input))
       THEN /\ reservation_sessions[PartySizeSession].step = "special_requests_input"
            /\ reservation_sessions[PartySizeSession].data.email
                   = Some(Trimmed(Run.user_input))
            /\ response.step = "special_requests_input"
       ELSE /\ reservation_sessions = EmailStore
            /\ reservation_sessions[PartySizeSession].step = "email_input"
            /\ reservation_sessions[PartySizeSession].data.email = None
            /\ response.step = "email_input"
            /\ response.error = "True"

\* an address typed with a space before it was stored without the space
C32_Witness ==
    /\ EmailRun
    /\ Run.user_input = <<" ", "a", "@", "a", ".", "a", "a">>
    /\ reservation_sessions[PartySizeSession].data.email
           = Some(<<"a", "@", "a", ".", "a", "a">>)
    /\ reservation_sessions[PartySizeSession].step = "special_requests_input"


\* the data of a session has every field a booking needs
RequiredFieldsPresent(data) ==
    /\ data.datetime # None /\ Val(data.datetime) # <<>>
    /\ data.party_size # None
    /\ data.contact # None
    /\ Val(data.contact).name # <<>>
    /\ Val(data.contact).phone # <<>>
    /\ data.email # None /\ Val(data.email) # <<>>

\* C33: every session whose stored step is confirmation has its date and
\* time, party size, contact name, contact phone and email, none of them
\* empty.
C33_ConfirmationHasRequiredFields ==
    \A session_id \in DOMAIN reservation_sessions :
        reservation_sessions[session_id].step = "confirmation"
            => RequiredFieldsPresent(reservation_sessions[session_id].data)


\* C34: after a processStep turn whose session is still in the store, the
\* step of the response is the stored step of the session, which is what
\* get_session_status reports.
C34_ResponseStepIsStoredStep ==
    (turn.op = "step" /\ turn.session_id # None
         /\ Val(turn.session_id) \in DOMAIN reservation_sessions)
    => response.step = reservation_sessions[Val(turn.session_id)].step


\* the sessions whose stored step is completed
CompletedSessions ==
    {s \in DOMAIN reservation_sessions : reservation_sessions[s].step = "completed"}

\* C35: a processStep turn on a session whose stored step is completed
\* answers an error that asks for a restart, runs no driver and leaves the
\* step, the collected fields and the booking result of the session as they
\* were; and a completed session is removed from the store by cancelSession
\* only.
C35_CompletedIsAbsorbing ==
    [][\A s \in CompletedSessions :
          /\ (now' = now /\ turn'.op = "step" /\ turn'.session_id = Some(s))
                 => /\ response'.error = "message"
                    /\ response'.restart_needed
                    /\ turn'.driver = "none"
                    /\ s \in DOMAIN reservation_sessions'
                    /\ reservation_sessions'[s] = reservation_sessions[s]
          /\ turn'.op # "cancel" => s \in DOMAIN reservation_sessions']_vars

\* a processStep turn was answered with the restart error on a session that
\* is completed with its booking result
C35_Witness ==
    /\ turn.op = "step" /\ turn.session_id # None
    /\ response.message = "unknown_step" /\ response.restart_needed
    /\ Val(turn.session_id) \in CompletedSessions
    /\ reservation_sessions[Val(turn.session_id)].booking_result # None


\* ---------------------------------------------------------------------
\* The date a driver acts on
\* ---------------------------------------------------------------------

\* dates are days counted from today
\* max_date = today + timedelta(days=60)
TabelogMaxDays == 60
\* date_obj = today + timedelta(days=7)
TabelogSubstituteDays == 7

RequestDays == {1, 7, 30, 60, 61, 90}

\* the booking form as the date step of Tabelog meets it: a date input, or a
\* calendar in which the cell of the day can be clicked or not
TabelogDatePages == [date_input : BOOLEAN, day_found : BOOLEAN]

\* the booking form as the date step of Toreta meets it: the cell of the day
\* can be clicked or not, there is a date input or not, and first_available
\* is the first day the calendar offers, <<>> when it offers none
ToretaDatePages ==
    [day_found : BOOLEAN, date_input : BOOLEAN,
     first_available : {None} \cup {Some(d) : d \in {1, 2, 30}}]

\* _select_date(date_str): the date that is filled or clicked, <<>> when
\* the step returns False
_select_date(date, page) ==
    LET date_obj == IF date > TabelogMaxDays THEN TabelogSubstituteDays ELSE date
    IN IF page.date_input THEN Some(date_obj)
       ELSE IF page.day_found THEN Some(date_obj)
       ELSE None

\* _select_date_toreta(date_str): the date that is clicked or filled, <<>>
\* when the step returns False
_select_date_toreta(date, page) ==
    IF page.day_found THEN Some(date)
    ELSE IF page.date_input THEN Some(date)
    ELSE page.first_available

\* the page of a Toreta run whose later steps all succeed, by the outcome
\* of the date step
ToretaFormPage(date_selected) ==
    [launch_ok |-> TRUE, nav_timeout |-> FALSE, blocked_on_landing |-> FALSE,
     entry_found |-> TRUE, date_ok |-> date_selected, time_ok |-> date_selected,
     info_ok |-> date_selected, submit_crash |-> FALSE, completed |-> date_selected,
     id_found |-> FALSE]

\* a Tabelog run for the date; the result names reservation_date in its
\* booking_info and instructions
RunTabelogDate(date, page) ==
    /\ driver_run = << >>
    /\ \E run \in {TabelogMakeReservation(
                       tabelog_service, <<"https:", "/", "/", "tabelog.com", "/", "tokyo">>,
                       date, "19:00", 2, DriverCustomer,
                       BookingFormPage(_select_date(date, page) # None))} :
           /\ driver_run' = <<[driver |-> "tabelog_date", requested |-> date,
                               page |-> page,
                               acted |-> _select_date(date, page),
                               reported |-> date, result |-> run.result]>>
           /\ tabelog_service' = run.service
    /\ UNCHANGED <<reservation_sessions, now, toreta_service, response, turn, requests>>

\* a Toreta run for the date; the result names reservation_date in its details
RunToretaDate(date, page) ==
    /\ driver_run = << >>
    /\ \E run \in {ToretaMakeReservation(
                       toreta_service,
                       <<"https:", "/", "/", "yoyaku.", "toreta.in", "/", "abc">>,
                       date, "19:00", 2, DriverCustomer,
                       ToretaFormPage(_select_date_toreta(date, page) # None))} :
           /\ driver_run' = <<[driver |-> "toreta_date", requested |-> date,
                               page |-> page,
                               acted |-> _select_date_toreta(date, page),
                               reported |-> date, result |-> run.result]>>
           /\ toreta_service' = run.service
    /\ UNCHANGED <<reservation_sessions, now, tabelog_service, response, turn, requests>>

NextDates ==
    \/ \E date \in RequestDays, page \in TabelogDatePages : RunTabelogDate(date, page)
    \/ \E date \in RequestDays, page \in ToretaDatePages : RunToretaDate(date, page)

SpecDates == Init /\ [][NextDates]_vars

\* C36: the date a driver selects or fills on the site is the date of the
\* booking request, which is the date its result reports.
C36_DriverActsOnRequestedDate ==
    (driver_run # << >> /\ Run.driver \in {"tabelog_date", "toreta_date"}
         /\ Run.acted # None)
    => Val(Run.acted) = Run.requested /\ Val(Run.acted) = Run.reported


\* ---------------------------------------------------------------------
\* The confirmation step on inputs that combine its keywords
\* ---------------------------------------------------------------------

ConfirmWords == {"jikkou", "OK", "kyanseru", "shuusei", "zokkou", "abc"}

\* the inputs: up to two of the words, in either order
ConfirmInputs == UNION {[1..n -> ConfirmWords] : n \in 0..2}

\* the store with one session that waits at confirmation
ConfirmStore ==
    _handle_special_requests_input(
        _handle_email_input(EmailStore, PartySizeSession, EmailText).store,
        PartySizeSession, <<"nashi">>).store

\* _handle_confirmation(session_id, user_input) on that session; the page
\* matters when the booking is run
ConfirmTurn(user_input, tpage) ==
    \E out \in {_handle_confirmation(ConfirmStore, PartySizeSession, user_input,
                                     tpage, NoToretaPage)} :
        /\ reservation_sessions' = out.store
        /\ response' = out.resp
        /\ turn' = [BlankTurn EXCEPT !.op = "confirm",
                                     !.session_id = Some(PartySizeSession),
                                     !.driver = out.driver,
                                     !.booking_result = out.booking_result]
        /\ tabelog_service' = out.tabelog
        /\ toreta_service' = out.toreta
        /\ driver_run' = <<[driver |-> "confirmation", user_input |-> user_input,
                            page |-> tpage]>>
        /\ UNCHANGED <<now, requests>>

NextConfirm ==
    /\ driver_run = << >>
    /\ \E user_input \in ConfirmInputs :
           \E tpage \in IF IsExecute(user_input) THEN TabelogResultPages
                        ELSE {NoTabelogPage} :
               ConfirmTurn(user_input, tpage)

SpecConfirm == Init /\ [][NextConfirm]_vars

ConfirmRun == driver_run # << >> /\ Run.driver = "confirmation"

HasWord(text, words) == \E i \in 1..Len(text) : text[i] \in words

\* C37: at confirmation an input with an execute word runs the booking and
\* neither deletes the session nor shows the edit menu, whatever other words
\* it has; without an execute word a cancel word deletes the session;
\* without either an edit word shows the edit menu; without any of these
\* the word for continue or an empty input shows the summary again.
C37_IntentPriority ==
    ConfirmRun
    => IF HasWord(Run.user_input, {"jikkou", "hai", "check-mark", "OK", "ok", "yes"})
       THEN /\ turn.driver = "tabelog"
            /\ PartySizeSession \in DOMAIN reservation_sessions
            /\ ~response.cancelled
            /\ response.message \notin {"edit_menu", "cancelled"}
       ELSE IF HasWord(Run.user_input, {"kyanseru"})
       THEN /\ PartySizeSession \notin DOMAIN reservation_sessions
            /\ response.cancelled
            /\ turn.driver = "none"
       ELSE IF HasWord(Run.user_input, {"shuusei"})
       THEN /\ response.message = "edit_menu"
            /\ reservation_sessions = ConfirmStore
            /\ turn.driver = "none"
       ELSE /\ reservation_sessions = ConfirmStore
            /\ turn.driver = "none"
            /\ (HasWord(Run.user_input, {"zokkou"}) \/ Run.user_input = <<>>)
                   => response.message = "confirmation_summary"

\* the input キャンセル 実行 (cancel, then execute) ran the booking and the
\* session is still stored
C37_Witness ==
    /\ ConfirmRun
    /\ Run.user_input = <<"kyanseru", "jikkou">>
    /\ turn.driver = "tabelog"
    /\ PartySizeSession \in DOMAIN reservation_sessions


\* the dispatcher routes the website to the Tabelog or the Toreta driver
RoutedToDriver(website) ==
    \/ Contains(website, "tabelog.com")
    \/ Contains(website, "toreta.in")
    \/ Contains(website, "toreta-reserve")

\* C38: every restaurant whose website the dispatcher routes to a driver is
\* assessed available.
C38_AssessorAgreesWithDispatcher ==
    (turn.op = "assess" /\ RoutedToDriver(Val(turn.restaurant).website))
    => Val(response.availability).available


\* ---------------------------------------------------------------------
\* cancelSession while an execute turn is inside the driver
\* ---------------------------------------------------------------------

RaceRestaurant ==
    Restaurant("p1", <<"bistro">>, "03-1111-2222",
               <<"https:", "/", "/", "yoyaku.", "toreta.in", "/", "abc">>)

\* the store with one session of a Toreta restaurant that waits at
\* confirmation
RaceStore ==
    [ConfirmStore EXCEPT
        ![PartySizeSession].restaurant = RaceRestaurant,
        ![PartySizeSession].availability =
            _check_restaurant_booking_availability(RaceRestaurant)]

RaceInputs == { <<"check-mark", "jikkou">>, <<"hai">> }

LaterInputs == { <<"zokkou">>, <<"shuusei">>, <<"check-mark", "jikkou">> }

\* the conversation has reached confirmation
RacePrepare ==
    /\ driver_run = << >>
    /\ reservation_sessions' = RaceStore
    /\ driver_run' = <<[driver |-> "race", cancelled_in_flight |-> FALSE]>>
    /\ UNCHANGED <<now, tabelog_service, toreta_service, response, turn, requests>>

\* a thread takes an execute turn: session = self.reservation_sessions[id]
\* is read and the driver is entered; the thread keeps the session object
EnterDriver(t, user_input) ==
    /\ driver_run # << >>
    /\ requests[t].pc = "idle"
    /\ PartySizeSession \in DOMAIN reservation_sessions
    /\ reservation_sessions[PartySizeSession].step = "confirmation"
    /\ IsExecute(user_input)
    /\ requests' = [requests EXCEPT ![t] =
                       [pc |-> "in_driver", session_id |-> Some(PartySizeSession),
                        user_input |-> user_input, current_step |-> "confirmation",
                        session |-> reservation_sessions[PartySizeSession]]]
    /\ UNCHANGED <<reservation_sessions, now, tabelog_service, toreta_service, response,
                   turn, driver_run>>

\* cancel_session(session_id), from another request
CancelDuringRun ==
    /\ driver_run # << >>
    /\ IF PartySizeSession \in DOMAIN reservation_sessions
       THEN /\ reservation_sessions' = Delete(reservation_sessions, PartySizeSession)
            /\ response' = [BlankResponse EXCEPT !.kind = "cancel",
                                                 !.message = "session_cancelled"]
            /\ driver_run' =
                   <<[Val(driver_run) EXCEPT !.cancelled_in_flight =
                          @ \/ \E t \in Threads : requests[t].pc = "in_driver"]>>
       ELSE /\ response' = [BlankResponse EXCEPT !.kind = "cancel", !.error = "message",
                                                 !.message = "session_not_found"]
            /\ UNCHANGED <<reservation_sessions, driver_run>>
    /\ turn' = [BlankTurn EXCEPT !.op = "cancel", !.session_id = Some(PartySizeSession)]
    /\ UNCHANGED <<now, tabelog_service, toreta_service, requests>>

\* the store as the thread sees it through its session object: the object
\* is the stored one while the session is in the store
HeldView(t) ==
    IF PartySizeSession \in DOMAIN reservation_sessions
    THEN reservation_sessions
    ELSE Put(reservation_sessions, PartySizeSession, requests[t].session)

\* variant in which the thread writes its session back into the store
LeaveDriver_writes_back(t, opage) ==
    /\ requests[t].pc = "in_driver"
    /\ \E out \in {_handle_confirmation(HeldView(t), PartySizeSession,
                                        requests[t].user_input, NoTabelogPage, opage)} :
          /\ reservation_sessions' = out.store
          /\ response' = out.resp
          /\ turn' = [BlankTurn EXCEPT !.op = "step",
                                       !.session_id = Some(PartySizeSession),
                                       !.driver = out.driver,
                                       !.booking_result = out.booking_result]
          /\ tabelog_service' = out.tabelog
          /\ toreta_service' = out.toreta
    /\ requests' = [requests EXCEPT ![t] = Idle]
    /\ UNCHANGED <<now, driver_run>>

\* the driver returns and the turn ends: session['step'] and
\* session['booking_result'] are written to the session object, which is in
\* the store only if it was not deleted meanwhile
LeaveDriver(t, opage) ==
    /\ requests[t].pc = "in_driver"
    /\ \E out \in {_handle_confirmation(HeldView(t), PartySizeSession,
                                        requests[t].user_input, NoTabelogPage, opage)} :
          /\ reservation_sessions' =
                 IF PartySizeSession \in DOMAIN reservation_sessions
                 THEN out.store ELSE reservation_sessions
          /\ response' = out.resp
          /\ turn' = [BlankTurn EXCEPT !.op = "step",
                                       !.session_id = Some(PartySizeSession),
                                       !.driver = out.driver,
                                       !.booking_result = out.booking_result]
          /\ tabelog_service' = out.tabelog
          /\ toreta_service' = out.toreta
    /\ requests' = [requests EXCEPT ![t] = Idle]
    /\ UNCHANGED <<now, driver_run>>

\* a later process_reservation_step on the session id, when no turn is in
\* the driver
LaterStep(user_input) ==
    /\ driver_run # << >>
    /\ \A t \in Threads : requests[t].pc = "idle"
    /\ ~IsExecute(user_input) \/ PartySizeSession \notin DOMAIN reservation_sessions
    /\ process_reservation_step(PartySizeSession, user_input)

NextRace ==
    \/ RacePrepare
    \/ \E t \in Threads, user_input \in RaceInputs : EnterDriver(t, user_input)
    \/ CancelDuringRun
    \/ \E t \in Threads, opage \in ToretaResultPages : LeaveDriver(t, opage)
    \/ \E user_input \in LaterInputs : LaterStep(user_input)

SpecRace == Init /\ [][NextRace]_vars

CancelledInFlight == driver_run # << >> /\ Run.driver = "race" /\ Run.cancelled_in_flight

\* C39: once cancelSession has removed a session while an execute turn on
\* it was inside the driver, the session is absent from the store from then
\* on, also after that turn has ended, and every later processStep on its
\* id answers that the session is not found.
C39_LateResultDoesNotRecreate ==
    CancelledInFlight
    => /\ PartySizeSession \notin DOMAIN reservation_sessions
       /\ (turn.op = "step" /\ turn.driver = "none")
              => response.message = "session_not_found"

\* the session was cancelled while a turn was in the driver, that turn has
\* ended with a successful booking, and the store is empty
C39_Witness ==
    /\ CancelledInFlight
    /\ \A t \in Threads : requests[t].pc = "idle"
    /\ turn.op = "step" /\ turn.driver = "toreta"
    /\ turn.booking_result # None /\ Val(turn.booking_result).success
    /\ reservation_sessions = << >>

============================================================================
